---------------------------- MODULE Spec2Model ----------------------------
(***************************************************************************)
(* GitHubWatchdog: the crawl engine.                                       *)
(*                                                                         *)
(*   RateLimiter   src/internal/github/rate_limiter.go                     *)
(*   APICache      src/internal/github/cache.go                            *)
(*   Client        src/unnamed/part_003 (package github)                   *)
(*   Database      src/unnamed/part_001 (package db)                       *)
(*   run loop, page loop, worker   src/cmd/watchdog/search.go:382-631      *)
(*   Analyzer.AnalyzeUser          src/internal/analyzer/analyzer.go       *)
(*                                                                         *)
(* Times are whole seconds.  The module holds several specifications over  *)
(* one set of variables; each one moves the part of the state it is about  *)
(* and leaves the rest at its initial value.                               *)
(***************************************************************************)
EXTENDS Integers, Sequences, FiniteSets, TLC

VARIABLES
    now,              \* the wall clock, time.Now()
    \* ---- RateLimiter (rate_limiter.go:16-26)
    coreRemaining,
    coreReset,
    searchRemaining,
    searchReset,
    lastCheck,
    mutex,            \* r.mutex: "free" or the caller holding it
    rlPc,             \* per caller: where it is inside a Client call
    rlReq,            \* per caller: the request of the call in progress
    rlResp,           \* per caller: the rate-limit headers of the response it holds
    slept,            \* per caller: its CheckRateLimit went through time.Sleep
    sleepStart,       \* time.Now() when the time.Sleep in progress began
    waitTime,         \* the argument of the time.Sleep in progress
    \* ---- APICache (cache.go:11-14)
    apiCache,         \* c.data: key -> CacheEntry{Data, Timestamp}, or no entry
    lastGet,          \* the latest Get and what it returned
    setLog,           \* per key: the latest Set since the cache was emptied
    ticks,            \* how often the clock of the cache has advanced
    \* ---- the remote directory and the Database (part_001:93-150)
    world,            \* per repository: created_at, updated_at, size (fixed)
    ledger,           \* processed_repositories: repo_id -> updated_at, or no row
    userRows,         \* processed_users: the usernames that have a row
    flagRows,         \* heuristic_flags: rows per entity_id
    \* ---- Analyzer and Client memory
    userCache,        \* Analyzer: username -> verdict of the analysis, or none
    flaggedUsers,     \* Analyzer: the users marked by MarkUserFlagged
    readmeCache,      \* Client cache: repositories whose README response is stored
    searchCache,      \* Client cache: <<query, page>> whose response is stored
    \* ---- runSearchMode and searchAndProcessRepositories (search.go:382-544)
    ctxDone,          \* the deadline of ctx has passed
    runPc,            \* "paging", "draining", "returned", "done"
    currentQuery,
    page,
    items,            \* result.Items of the page being processed
    oldest,
    errCh,
    passErr,          \* the error searchAndProcessRepositories returned
    wk,               \* per item: the goroutine running processRepository
    faults,           \* how many calls have failed so far
    quotaHit,         \* a quota-exceeded answer has been received
    completed,        \* items whose processRepository returned with a nil error
    \* ---- the workers of processor.go around Analyzer.AnalyzeUser
    an,               \* per goroutine: its position, user, fetched data, result
    processedUsers,   \* the map processedUsers of processor.go
    crashed,          \* the runtime has aborted the program
    \* ---- cfg.PerPage, cfg.MaxPages, cfg.MaxConcurrent (search.go:471-484)
    cfg,
    \* ---- the tables of the Database, row by row (part_001:93-150)
    repoTable,        \* processed_repositories, in order of insertion
    flagTable,        \* heuristic_flags, in order of insertion
    lastExec,         \* the latest statement, its arguments and its error
    \* ---- one call of a Client method (part_003:145-673)
    cl,
    \* ---- EvaluateUserHeuristics (part_003:67-84)
    hIn,              \* the user data and repositories it is given
    hOut,             \* what it returned, or nothing yet
    \* ---- the content check of one repository (part_002:60-102)
    cc,
    \* ---- the process of an earlier main (search.go:188-248, main.go:19-78)
    proc,
    \* ---- one count of a user's recent events (part_003:382-450)
    ev

rlVars == <<coreRemaining, coreReset, searchRemaining, searchReset, lastCheck,
            mutex, rlPc, rlReq, rlResp, slept, sleepStart, waitTime>>

cacheVars == <<apiCache, lastGet, setLog, ticks>>

crawlVars == <<world, ledger, userRows, flagRows, userCache, flaggedUsers,
               readmeCache, searchCache, ctxDone, runPc, currentQuery, page,
               items, oldest, errCh, passErr, wk, faults, quotaHit, completed,
               cfg>>

anVars == <<an, processedUsers, crashed>>

dbVars == <<repoTable, flagTable, lastExec>>

heVars == <<hIn, hOut>>

moreVars == <<cc, proc, ev>>

restVars == <<dbVars, cl, heVars, moreVars>>

vars == <<now, rlVars, cacheVars, crawlVars, anVars, restVars>>

None == "none"

-----------------------------------------------------------------------------
(* Time *)

\* The zero time.Time (year 1): before every instant of a run.
ZeroTime == 0 - 1000

After(a, b) == a > b
Before(a, b) == a < b
Since(t) == now - t
Until(t) == t - now

-----------------------------------------------------------------------------
(* The remote directory, the Database and the crawl before it starts *)

MaxT == 3
MaxFaults == 1
PageSize == 2
PageCap == 2
PoolSize == 2

\* cfg.PerPage, cfg.MaxPages, cfg.MaxConcurrent as searchAndProcessRepositories
\* reads them (search.go:471-484).
perPage == cfg.PerPage
maxPages == cfg.MaxPages
maxConcurrent == cfg.MaxConcurrent

\* The configuration of the crawl, and configurations whose pool is smaller
\* than a page or whose page is smaller than the result set.
CrawlConfig == [PerPage |-> PageSize, MaxPages |-> PageCap, MaxConcurrent |-> PoolSize]
PoolConfigs ==
    {[PerPage |-> PageSize, MaxPages |-> PageCap, MaxConcurrent |-> PoolSize - 1],
     [PerPage |-> PageSize - 1, MaxPages |-> PageCap, MaxConcurrent |-> PoolSize - 1]}

\* How many calls fail in one run.  A pool smaller than PoolSize gets as many
\* more, so that more items of a page can fail than errCh has room for.
FaultCap == MaxFaults + (PoolSize - maxConcurrent)

emptyThreshold == 10

RepoIds == {"alice/x", "bob/y"}
Owner(r) == IF r = "alice/x" THEN "alice" ELSE "bob"
Owners == {Owner(r) : r \in RepoIds}
Times == 1..MaxT

\* item.Size of the search result, in KB.
SizesOf(r) == IF r = "alice/x" THEN {5} ELSE {0, 20}

\* A fixed result set: every repository has created <= updated.
Worlds ==
    {w \in [RepoIds -> [created : Times, updated : Times, size : {0, 5, 20}]] :
        \A r \in RepoIds : /\ w[r].created <= w[r].updated
                           /\ w[r].size \in SizesOf(r)}

\* processed_repositories: no row, or the updated_at of the row.
NoRow == 0
EmptyLedger == [r \in RepoIds |-> NoRow]

\* What an earlier run has left in the Database: a row for alice/x, which is
\* older than the repository or as old, depending on the directory; none for
\* bob/y.
PriorLedger == [r \in RepoIds |-> IF r = "alice/x" THEN 1 ELSE NoRow]

\* cfg.GitHubQuery is "created:>DATE stars:>5"; the run loop then builds
\* "created:<TIME stars:>5" with TIME in RFC 3339 at whole seconds.
BaseDate == 0
InitialQuery == [op |-> ">", t |-> BaseDate]

NoVerdict == "none"
IdleWorker == [pc |-> "idle", after |-> FALSE, remote |-> FALSE, wrote |-> FALSE,
               failed |-> FALSE, remoteErr |-> "nil", checked |-> FALSE,
               isMalicious |-> FALSE]

Goroutines == {"g1", "g2", "g3"}
IdleCall == [pc |-> "idle", user |-> NoVerdict, data |-> NoVerdict,
             result |-> NoVerdict, peers |-> {}, fetched |-> FALSE]

\* analyzer.NewAnalyzer and the empty map of processor.go before any worker.
AnalyzeInit ==
    /\ an = [g \in Goroutines |-> IdleCall]
    /\ processedUsers = {}
    /\ crashed = FALSE

\* runSearchMode up to search.go:417, on the Database l, the directory w and
\* the configuration c.
CrawlInitCfg(w, l, c) ==
    /\ cfg = c
    /\ world = w
    /\ ledger = l
    /\ userRows = {}
    /\ flagRows = [u \in Owners |-> 0]
    /\ userCache = [u \in Owners |-> NoVerdict]
    /\ flaggedUsers = {}
    /\ readmeCache = {}
    /\ searchCache = {}
    /\ ctxDone = FALSE
    /\ runPc = "paging"
    /\ currentQuery = InitialQuery
    /\ page = 1
    /\ items = {}
    /\ oldest = ZeroTime
    /\ errCh = <<>>
    /\ passErr = "nil"
    /\ wk = [r \in RepoIds |-> IdleWorker]
    /\ faults = 0
    /\ quotaHit = FALSE
    /\ completed = {}

CrawlInitWith(w, l) == CrawlInitCfg(w, l, CrawlConfig)

CrawlInit == \E w \in Worlds : CrawlInitWith(w, PriorLedger)

\* The tables as createTables leaves them, and no statement executed yet.
NoExec == [n |-> 0, stmt |-> "none", row |-> <<>>, err |-> "nil", failed |-> FALSE]
DbInit ==
    /\ repoTable = <<>>
    /\ flagTable = <<>>
    /\ lastExec = NoExec

\* No Client method is running.
NilError == [msg |-> "nil", status |-> ""]
NoCall == [op |-> "none", pc |-> "idle", page |-> 1, outbound |-> 0, sleeps |-> 0,
           steps |-> <<>>,
           err |-> NilError, last |-> "none", calls |-> 0]
ClientIdle == cl = NoCall

\* EvaluateUserHeuristics has not been called.
NoInput == [CreatedAt |-> 0, Contributions |-> 0, Repositories |-> <<>>]
NoResult == [by |-> "none", results |-> <<>>, suspicious |-> FALSE]
HeurIdle == hIn = NoInput /\ hOut = NoResult

\* No content check is running.
NoCheck == [pc |-> "idle", status |-> "none", content |-> <<>>, Readme |-> <<>>,
            TreeEntries |-> <<>>, assets |-> <<>>, relFails |-> FALSE,
            readme |-> "none", loader |-> "none", err |-> "nil", releaseCalls |-> 0]
ContentIdle == cc = NoCheck

\* No earlier main is running.
NoProc == [variant |-> "none", pc |-> "idle", err |-> <<>>, status |-> 0,
           passes |-> 0, currentQuery |-> 0]
ProcIdle == proc = NoProc

\* No count of events is running.
NoEvents == [pc |-> "idle", events |-> <<>>, by |-> "none", count |-> 0]
EventsIdle == ev = NoEvents

MoreIdle == ContentIdle /\ ProcIdle /\ EventsIdle

RestIdle == DbInit /\ ClientIdle /\ HeurIdle /\ MoreIdle

\* The crawl left alone, for the specifications of the other components.
CrawlIdle ==
    CrawlInitWith([r \in RepoIds |-> [created |-> 1, updated |-> 1,
                                      size |-> IF r = "alice/x" THEN 5 ELSE 0]],
                  EmptyLedger)

-----------------------------------------------------------------------------
(* APICache *)

cacheTTL == 60
ShortTTL == 2
LongStep == 59
MaxTicks == 3

CacheKeys == {"user:alice", "readme:alice:x"}
Payloads == {"p1", "p2"}
TTLs == {ShortTTL, cacheTTL}
TickSteps == {1, LongStep}

NoEntry == [present |-> FALSE, Data |-> None, Timestamp |-> 0]
NoGet == [key |-> None, ttl |-> 0, at |-> 0, hit |-> FALSE, Data |-> None]

\* NewAPICache(): an empty map.
CacheInit ==
    /\ apiCache = [k \in CacheKeys |-> NoEntry]
    /\ lastGet = NoGet
    /\ setLog = [k \in CacheKeys |-> NoEntry]
    /\ ticks = 0

\* Get(key, ttl): the entry's data and true when there is an entry younger
\* than ttl, else nil and false.
APICacheGetAnyAge(cache, key, ttl) ==
    IF cache[key].present
    THEN [hit |-> TRUE, Data |-> cache[key].Data]
    ELSE [hit |-> FALSE, Data |-> None]
APICacheGet(cache, key, ttl) ==
    IF cache[key].present /\ Since(cache[key].Timestamp) < ttl
    THEN [hit |-> TRUE, Data |-> cache[key].Data]
    ELSE [hit |-> FALSE, Data |-> None]

\* Set(key, data): the entry is replaced, stamped with the current time.
APICacheSet(cache, key, data) ==
    [cache EXCEPT ![key] = [present |-> TRUE, Data |-> data, Timestamp |-> now]]

\* Clear(): a fresh map.
APICacheClear(cache) == [k \in DOMAIN cache |-> NoEntry]

CacheGet(key, ttl) ==
    /\ lastGet' = [key |-> key, ttl |-> ttl, at |-> now,
                   hit |-> APICacheGet(apiCache, key, ttl).hit,
                   Data |-> APICacheGet(apiCache, key, ttl).Data]
    /\ UNCHANGED <<now, apiCache, setLog, ticks>>

CacheSet(key, data) ==
    /\ apiCache' = APICacheSet(apiCache, key, data)
    /\ setLog' = [setLog EXCEPT ![key] =
                    [present |-> TRUE, Data |-> data, Timestamp |-> now]]
    /\ lastGet' = NoGet
    /\ UNCHANGED <<now, ticks>>

CacheClear ==
    /\ apiCache' = APICacheClear(apiCache)
    /\ setLog' = [k \in CacheKeys |-> NoEntry]
    /\ lastGet' = NoGet
    /\ UNCHANGED <<now, ticks>>

\* The clock advances by one unit or by a long step.
CacheTick(d) ==
    /\ ticks < MaxTicks
    /\ ticks' = ticks + 1
    /\ now' = now + d
    /\ UNCHANGED <<apiCache, lastGet, setLog>>

-----------------------------------------------------------------------------
(* RateLimiter *)

coreLimitBuffer == 500
searchLimitBuffer == 3
checkInterval == 300
Grace == 5
CoreDefault == 5000
SearchDefault == 30

MaxNow == 7

Classes == {"core", "search"}

\* The goroutines that use the Client: the run loop and a worker.
Callers == {"main", "w1"}

NoReq == [ep |-> None, owner |-> None, repo |-> None]

\* The calls each goroutine makes: the run loop searches (and refreshes the
\* limits), a worker fetches accounts and repository contents.
Requests(c) ==
    IF c = "main"
    THEN {[ep |-> "search", owner |-> None, repo |-> None]}
    ELSE {[ep |-> "user", owner |-> "alice", repo |-> None],
          [ep |-> "readme", owner |-> "alice", repo |-> "search"]}

\* The budget class a Client method admits on: SearchRepositories calls
\* CheckSearchRateLimit, every other method CheckCoreRateLimit.
AdmitClass(req) == IF req.ep = "search" THEN "search" ELSE "core"

\* The URL path of a request, as its segments ("/a/b" is <<"a", "b">>).
UrlPath(req) ==
    CASE req.ep = "search"   -> <<"search", "repositories">>
      [] req.ep = "user"     -> <<"users", req.owner>>
      [] req.ep = "repos"    -> <<"users", req.owner, "repos">>
      [] req.ep = "events"   -> <<"users", req.owner, "events", "public">>
      [] req.ep = "readme"   -> <<"repos", req.owner, req.repo, "readme">>
      [] req.ep = "tree"     -> <<"repos", req.owner, req.repo, "git", "trees", "main">>
      [] req.ep = "releases" -> <<"repos", req.owner, req.repo, "releases">>

\* strings.Contains(path, "/search/"): a segment "search" that another follows.
IsSearchRequest(path) == \E i \in 1..(Len(path) - 1) : path[i] = "search"

Buffer(apiType) == IF apiType = "search" THEN searchLimitBuffer ELSE coreLimitBuffer
Remaining(apiType) == IF apiType = "search" THEN searchRemaining ELSE coreRemaining
Reset(apiType) == IF apiType = "search" THEN searchReset ELSE coreReset
Other(apiType) == IF apiType = "search" THEN "core" ELSE "search"

\* CheckRateLimit's two tests together: must the caller wait?
MustWaitAtBuffer(remaining, buffer, resetTime) ==
    remaining <= buffer /\ ~After(now, resetTime)
MustWait(remaining, buffer, resetTime) ==
    remaining < buffer /\ ~After(now, resetTime)

\* The values a response header may carry; Absent is a missing header.
Absent == 0 - 1
ResetAt == 1
HdrRemaining(class) == {Absent, Buffer(class) - 1, Buffer(class)}
HdrReset == {Absent, ResetAt}
NoResp == [rem |-> Absent, reset |-> Absent]

-----------------------------------------------------------------------------
(* RateLimiter: state after NewRateLimiter(buffer) *)

RLInit ==
    /\ coreRemaining = CoreDefault
    /\ coreReset = ZeroTime
    /\ searchRemaining = SearchDefault
    /\ searchReset = ZeroTime
    /\ lastCheck = ZeroTime
    /\ mutex = "free"
    /\ rlPc = [c \in Callers |-> "idle"]
    /\ rlReq = [c \in Callers |-> NoReq]
    /\ rlResp = [c \in Callers |-> NoResp]
    /\ slept = [c \in Callers |-> FALSE]
    /\ sleepStart = 0
    /\ waitTime = 0

\* The remaining count CheckRateLimit leaves after its wait.
AfterWaitRemainingAtBuffer(apiType) == Buffer(apiType)
AfterWaitRemaining(apiType) == Buffer(apiType) + 1

\* The holder of the mutex while caller c sleeps in CheckRateLimit: the
\* deferred Unlock has not run.
DuringSleepUnlocked(c) == "free"
DuringSleep(c) == c

\* CheckRateLimit(apiType), up to its return or to the start of time.Sleep.
\* The mutex is taken on entry and, by defer, released only on return: a
\* sleeping caller keeps it.
CheckRateLimit(c, apiType) ==
    /\ mutex = "free"
    /\ IF MustWait(Remaining(apiType), Buffer(apiType), Reset(apiType))
       THEN /\ mutex' = DuringSleep(c)
            /\ rlPc' = [rlPc EXCEPT ![c] = "sleeping"]
            /\ sleepStart' = now
            /\ waitTime' = Until(Reset(apiType)) + Grace
            /\ slept' = [slept EXCEPT ![c] = TRUE]
       ELSE /\ rlPc' = [rlPc EXCEPT ![c] = "admitted"]
            /\ slept' = [slept EXCEPT ![c] = FALSE]
            /\ UNCHANGED <<mutex, sleepStart, waitTime>>
    /\ UNCHANGED <<coreRemaining, coreReset, searchRemaining, searchReset, lastCheck>>

\* A Client method begins with CheckRateLimit on its budget class.
StartCall(c, req) ==
    /\ rlPc[c] = "idle"
    /\ rlReq' = [rlReq EXCEPT ![c] = req]
    /\ CheckRateLimit(c, AdmitClass(req))
    /\ UNCHANGED <<now, rlResp>>

\* time.Sleep(waitTime) is over: the rest of CheckRateLimit.
WakeUp(c) ==
    /\ rlPc[c] = "sleeping"
    /\ now >= sleepStart + waitTime
    /\ IF AdmitClass(rlReq[c]) = "search"
       THEN /\ searchRemaining' = AfterWaitRemaining("search")
            /\ UNCHANGED coreRemaining
       ELSE /\ coreRemaining' = AfterWaitRemaining("core")
            /\ UNCHANGED searchRemaining
    /\ mutex' = "free"
    /\ rlPc' = [rlPc EXCEPT ![c] = "admitted"]
    /\ sleepStart' = 0
    /\ waitTime' = 0
    /\ UNCHANGED <<now, coreReset, searchReset, lastCheck, rlReq, rlResp, slept>>

\* The admitted call ends without a response: a cache hit, or the transport
\* failed (httpClient.Do returned an error).
NoResponse(c) ==
    /\ rlPc[c] = "admitted"
    /\ rlPc' = [rlPc EXCEPT ![c] = "idle"]
    /\ rlReq' = [rlReq EXCEPT ![c] = NoReq]
    /\ slept' = [slept EXCEPT ![c] = FALSE]
    /\ UNCHANGED <<now, coreRemaining, coreReset, searchRemaining, searchReset,
                   lastCheck, mutex, rlResp, sleepStart, waitTime>>

\* httpClient.Do returns a response, with or without rate-limit headers.
Response(c) ==
    /\ rlPc[c] = "admitted"
    /\ \E hdrRem \in HdrRemaining(AdmitClass(rlReq[c])), hdrReset \in HdrReset :
          rlResp' = [rlResp EXCEPT ![c] = [rem |-> hdrRem, reset |-> hdrReset]]
    /\ rlPc' = [rlPc EXCEPT ![c] = "responded"]
    /\ slept' = [slept EXCEPT ![c] = FALSE]
    /\ UNCHANGED <<now, coreRemaining, coreReset, searchRemaining, searchReset,
                   lastCheck, mutex, rlReq, sleepStart, waitTime>>

\* UpdateFromResponse(resp): resp answers the request req and carries the
\* headers hdrRem (X-RateLimit-Remaining) and hdrReset (X-RateLimit-Reset).
UpdateFromResponse(req, hdrRem, hdrReset) ==
    /\ mutex = "free"
    /\ LET isSearchRequest == IsSearchRequest(UrlPath(req))
       IN /\ searchRemaining' = IF hdrRem # Absent /\ isSearchRequest
                                THEN hdrRem ELSE searchRemaining
          /\ coreRemaining' = IF hdrRem # Absent /\ ~isSearchRequest
                              THEN hdrRem ELSE coreRemaining
          /\ searchReset' = IF hdrReset # Absent /\ isSearchRequest
                            THEN hdrReset ELSE searchReset
          /\ coreReset' = IF hdrReset # Absent /\ ~isSearchRequest
                          THEN hdrReset ELSE coreReset
    /\ lastCheck' = now
    /\ UNCHANGED mutex

\* The Client records the response it holds.
Record(c) ==
    /\ rlPc[c] = "responded"
    /\ UpdateFromResponse(rlReq[c], rlResp[c].rem, rlResp[c].reset)
    /\ rlPc' = [rlPc EXCEPT ![c] = "idle"]
    /\ rlReq' = [rlReq EXCEPT ![c] = NoReq]
    /\ rlResp' = [rlResp EXCEPT ![c] = NoResp]
    /\ UNCHANGED <<now, slept, sleepStart, waitTime>>

\* FetchRateLimits up to its status query: nothing is asked within
\* checkInterval of the last update.  lastCheck is read without the mutex
\* and is written only when an answer is applied, so any caller that reads
\* it before that goes on to its own query.
FetchRateLimits(c) ==
    /\ rlPc[c] = "idle"
    /\ ~(Since(lastCheck) < checkInterval)
    /\ rlPc' = [rlPc EXCEPT ![c] = "fetching"]
    /\ UNCHANGED <<now, coreRemaining, coreReset, searchRemaining, searchReset,
                   lastCheck, mutex, rlReq, rlResp, slept, sleepStart, waitTime>>

\* The status query answered 200: both budgets are overwritten.
FetchDone(c) ==
    /\ rlPc[c] = "fetching"
    /\ mutex = "free"
    /\ \E cr \in HdrRemaining("core") \ {Absent}, sr \in HdrRemaining("search") \ {Absent},
          ct \in HdrReset \ {Absent}, st \in HdrReset \ {Absent} :
          /\ coreRemaining' = cr
          /\ coreReset' = ct
          /\ searchRemaining' = sr
          /\ searchReset' = st
    /\ lastCheck' = now
    /\ rlPc' = [rlPc EXCEPT ![c] = "idle"]
    /\ UNCHANGED <<now, mutex, rlReq, rlResp, slept, sleepStart, waitTime>>

\* The status query failed (transport error, non-200 or undecodable body).
FetchFail(c) ==
    /\ rlPc[c] = "fetching"
    /\ rlPc' = [rlPc EXCEPT ![c] = "idle"]
    /\ UNCHANGED <<now, coreRemaining, coreReset, searchRemaining, searchReset,
                   lastCheck, mutex, rlReq, rlResp, slept, sleepStart, waitTime>>

\* One second passes.
Tick ==
    /\ now < MaxNow
    /\ now' = now + 1
    /\ UNCHANGED <<rlVars, cacheVars, crawlVars, anVars, restVars>>

RLNext ==
    \/ \E c \in Callers : \E req \in Requests(c) : StartCall(c, req) /\ UNCHANGED <<cacheVars, crawlVars, anVars, restVars>>
    \/ \E c \in Callers : WakeUp(c) /\ UNCHANGED <<cacheVars, crawlVars, anVars, restVars>>
    \/ \E c \in Callers : NoResponse(c) /\ UNCHANGED <<cacheVars, crawlVars, anVars, restVars>>
    \/ \E c \in Callers : Response(c) /\ UNCHANGED <<cacheVars, crawlVars, anVars, restVars>>
    \/ \E c \in Callers : Record(c) /\ UNCHANGED <<cacheVars, crawlVars, anVars, restVars>>
    \/ \E c \in Callers : FetchRateLimits(c) /\ UNCHANGED <<cacheVars, crawlVars, anVars, restVars>>
    \/ \E c \in Callers : FetchDone(c) /\ UNCHANGED <<cacheVars, crawlVars, anVars, restVars>>
    \/ \E c \in Callers : FetchFail(c) /\ UNCHANGED <<cacheVars, crawlVars, anVars, restVars>>
    \/ Tick

RLSpecInit == now = 0 /\ RLInit /\ CacheInit /\ CrawlIdle /\ AnalyzeInit /\ RestIdle

SpecRL == RLSpecInit /\ [][RLNext]_vars

-----------------------------------------------------------------------------
(* Properties of the RateLimiter *)

\* A step in which caller c enters CheckRateLimit (a Client call begins).
Admits(c) == rlPc[c] = "idle" /\ rlPc'[c] \in {"sleeping", "admitted"}

\* A step in which caller c records the response it holds.
Records(c) == rlPc[c] = "responded" /\ rlPc'[c] = "idle"

\* A step in which the refresh of both budgets is applied.
Refreshes(c) == rlPc[c] = "fetching" /\ rlPc'[c] = "idle"

\* The remaining count and the reset time of a class after the step.
RemainingNext(k) == IF k = "search" THEN searchRemaining' ELSE coreRemaining'
ResetNext(k) == IF k = "search" THEN searchReset' ELSE coreReset'

\* C6 as stated: CheckRateLimit returns without suspending if and only if
\* the remaining count of the class exceeds its buffer or its reset time has
\* passed; at or below the buffer with a reset ahead, the caller is suspended.
C6_AdmitIffAboveBuffer ==
    [][\A c \in Callers :
         Admits(c) =>
           LET k == AdmitClass(rlReq'[c])
           IN (rlPc'[c] = "admitted")
                <=> (Remaining(k) > Buffer(k) \/ After(now, Reset(k)))]_vars

\* C6 amended: CheckRateLimit returns without suspending if and only if the
\* remaining count of the class is at least its buffer or the clock is past
\* its reset time; below the buffer with the reset time not yet passed, the
\* caller is suspended.
C6_AdmitIffAtLeastBuffer ==
    [][\A c \in Callers :
         Admits(c) =>
           LET k == AdmitClass(rlReq'[c])
           IN (rlPc'[c] = "admitted")
                <=> (Remaining(k) >= Buffer(k) \/ After(now, Reset(k)))]_vars

\* C6 witness: a caller is suspended inside CheckRateLimit, its class below
\* the buffer and the reset time not passed.
C6_Witness ==
    \E c \in Callers :
       /\ rlPc[c] = "sleeping"
       /\ Remaining(AdmitClass(rlReq[c])) < Buffer(AdmitClass(rlReq[c]))
       /\ ~After(now, Reset(AdmitClass(rlReq[c])))

\* C7: while a caller is suspended in CheckRateLimit on class k nothing of
\* the limiter changes; it resumes no earlier than k's reset time plus the
\* grace period, and on return k's remaining is buffer+1 while the other
\* class's remaining and reset are what they were.  A remaining of buffer+1
\* changes only when a response is recorded or a refresh is applied.
C7_SuspendThenOptimistic ==
    [][/\ \A c \in Callers :
            rlPc[c] = "sleeping" =>
              LET k == AdmitClass(rlReq[c])
                  o == Other(k)
              IN /\ ResetNext(k) = Reset(k)
                 /\ RemainingNext(o) = Remaining(o)
                 /\ ResetNext(o) = Reset(o)
                 /\ IF rlPc'[c] = "sleeping"
                    THEN RemainingNext(k) = Remaining(k)
                    ELSE /\ now >= Reset(k) + Grace
                         /\ RemainingNext(k) = Buffer(k) + 1
       /\ \A k \in Classes :
            (Remaining(k) = Buffer(k) + 1 /\ RemainingNext(k) # Buffer(k) + 1)
              => \E c \in Callers : Records(c) \/ Refreshes(c)]_vars

\* C7 witness: a caller is back from a suspended CheckRateLimit, past reset
\* plus grace, and its class's remaining is buffer+1.
C7_Witness ==
    \E c \in Callers :
       /\ rlPc[c] = "admitted"
       /\ slept[c]
       /\ now >= Reset(AdmitClass(rlReq[c])) + Grace
       /\ Remaining(AdmitClass(rlReq[c])) = Buffer(AdmitClass(rlReq[c])) + 1

\* C8 as stated: recording a response sets the remaining and reset of the
\* class the call was admitted on to the header values and leaves the other
\* class alone, whatever the endpoint and the owner and repository names.
C8_RecordScopedToAdmitClass ==
    [][\A c \in Callers :
         Records(c) =>
           LET k == AdmitClass(rlReq[c])
               o == Other(k)
           IN /\ rlResp[c].rem # Absent => RemainingNext(k) = rlResp[c].rem
              /\ rlResp[c].reset # Absent => ResetNext(k) = rlResp[c].reset
              /\ RemainingNext(o) = Remaining(o)
              /\ ResetNext(o) = Reset(o)]_vars

-----------------------------------------------------------------------------
(* The cache on its own *)

CacheNext ==
    \/ \E key \in CacheKeys, ttl \in TTLs : CacheGet(key, ttl) /\ UNCHANGED <<rlVars, crawlVars, anVars, restVars>>
    \/ \E key \in CacheKeys, data \in Payloads : CacheSet(key, data) /\ UNCHANGED <<rlVars, crawlVars, anVars, restVars>>
    \/ CacheClear /\ UNCHANGED <<rlVars, crawlVars, anVars, restVars>>
    \/ \E d \in TickSteps : CacheTick(d) /\ UNCHANGED <<rlVars, crawlVars, anVars, restVars>>

CacheSpecInit == now = 0 /\ RLInit /\ CacheInit /\ CrawlIdle /\ AnalyzeInit /\ RestIdle

SpecCache == CacheSpecInit /\ [][CacheNext]_vars

\* C9: Get(key, ttl) reports a hit if and only if key has been set since the
\* cache was last emptied and less than ttl has elapsed since the latest such
\* Set; a hit returns the payload of that Set.  So an entry stored at T hits
\* at T+59 and misses at T+61 for ttl = 60.
C9_HitIffWithinTTL ==
    lastGet.key # None =>
       LET e == setLog[lastGet.key]
           elapsed == lastGet.at - e.Timestamp
       IN /\ lastGet.hit <=> (e.present /\ elapsed < lastGet.ttl)
          /\ lastGet.hit => lastGet.Data = e.Data
          /\ (e.present /\ lastGet.ttl = 60 /\ elapsed = 59) => lastGet.hit
          /\ (e.present /\ lastGet.ttl = 60 /\ elapsed = 61) => ~lastGet.hit

\* C9 witness: a Get with ttl 60 hits an entry stored 59 units earlier.
C9_Witness ==
    /\ lastGet.key # None
    /\ lastGet.hit
    /\ lastGet.ttl = 60
    /\ lastGet.at - setLog[lastGet.key].Timestamp = 59


-----------------------------------------------------------------------------
(* Database (part_001) *)

\* SELECT updated_at ... WHERE repo_id = ?; sql.ErrNoRows is (false, nil).
WasRepoProcessedOnlyIfNewer(l, repoID, updatedAt) ==
    [already |-> l[repoID] # NoRow /\ After(l[repoID], updatedAt), err |-> "nil"]
WasRepoProcessed(l, repoID, updatedAt) ==
    IF l[repoID] = NoRow
    THEN [already |-> FALSE, err |-> "nil"]
    ELSE [already |-> ~After(updatedAt, l[repoID]), err |-> "nil"]

\* INSERT OR IGNORE INTO processed_repositories, repo_id being UNIQUE.
InsertProcessedRepo(l, repoID, updatedAt) ==
    IF l[repoID] = NoRow THEN [l EXCEPT ![repoID] = updatedAt] ELSE l

\* INSERT OR IGNORE INTO processed_users, username being UNIQUE.
InsertProcessedUser(rows, username) == rows \cup {username}

\* INSERT INTO heuristic_flags: one more row for the entity.
InsertHeuristicFlag(rows, entityID) == [rows EXCEPT ![entityID] = @ + 1]

-----------------------------------------------------------------------------
(* The search (part_003:145-227) on the fixed directory *)

Matches(q, r) ==
    IF q.op = ">" THEN world[r].created > q.t ELSE world[r].created < q.t

\* The request names no sort order; the server's order is fixed here.
Rank(r) == IF r = "alice/x" THEN 1 ELSE 2

SearchResults(q) ==
    LET S == {r \in RepoIds : Matches(q, r)}
    IN CHOOSE s \in [1..Cardinality(S) -> S] :
          \A i, j \in 1..Cardinality(S) : i < j => Rank(s[i]) < Rank(s[j])

PageItems(q, p) ==
    LET s == SearchResults(q)
    IN {s[i] : i \in {j \in 1..Len(s) : (p - 1) * perPage < j /\ j <= p * perPage}}

\* fmt.Sprintf("created:<%s stars:>5", oldest.Format(time.RFC3339))
NewQuery(t) == [op |-> "<", t |-> t]

IsZero(t) == t = ZeroTime

\* The errors whose chain holds context.Canceled.
IsCanceled(err) == err = "canceled"

\* select { case errCh <- err: default: } on a channel of maxConcurrent slots.
TrySend(ch, err) == IF Len(ch) < maxConcurrent THEN Append(ch, err) ELSE ch

\* if oldest.IsZero() || oldestItem.Before(oldest) { oldest = oldestItem }
MinOldestKeepsFirst(cur, t) == IF IsZero(cur) THEN t ELSE cur
MinOldest(cur, t) == IF IsZero(cur) \/ Before(t, cur) THEN t ELSE cur

Running == {r \in RepoIds : wk[r].pc \in {"analyze", "content", "insert"}}

\* sem <- struct{}{} on a channel of maxConcurrent slots goes through while a
\* slot is free.
SemFreeAlways == TRUE
SemFree == Cardinality(Running) < maxConcurrent

\* log.Error("Analyzing user ...") and log.Error("Checking repo files ..."):
\* the error of a remote call is logged and the worker goes on; nothing is
\* sent on errCh.
OnRemoteErrorFatal(ch, err) == TrySend(ch, err)
OnRemoteError(ch, err) == ch

AfterLookup(r) ==
    IF world[r].size < emptyThreshold THEN "analyze"
    ELSE IF world[r].size > 0 THEN "content" ELSE "insert"

AfterAnalyzeNoContent(r) == "insert"
AfterAnalyze(r) == IF world[r].size > 0 THEN "content" ELSE "insert"


-----------------------------------------------------------------------------
(* processRepository (search.go:547-631), one goroutine per item *)

WorkerVars == <<world, cfg, ctxDone, runPc, currentQuery, page, items, passErr,
                searchCache>>

\* sem <- struct{}{}, then WasRepoProcessed (search.go:565-574).
Lookup(r) ==
    /\ runPc = "draining"
    /\ wk[r].pc = "queued"
    /\ SemFree
    /\ LET T == world[r].updated
           res == WasRepoProcessed(ledger, r, T)
           me == [wk[r] EXCEPT !.after = r \in completed]
       IN \/ /\ faults < FaultCap           \* the query fails
             /\ faults' = faults + 1
             /\ errCh' = TrySend(errCh, "error")
             /\ wk' = [wk EXCEPT ![r] = [me EXCEPT !.pc = "done", !.failed = TRUE]]
             /\ UNCHANGED oldest
          \/ /\ res.already
             /\ oldest' = MinOldest(oldest, T)
             /\ wk' = [wk EXCEPT ![r] = [me EXCEPT !.pc = "done"]]
             /\ UNCHANGED <<faults, errCh>>
          \/ /\ ~res.already
             /\ wk' = [wk EXCEPT ![r] = [me EXCEPT !.pc = AfterLookup(r)]]
             /\ UNCHANGED <<faults, errCh, oldest>>
    /\ UNCHANGED <<ledger, userRows, flagRows, userCache, flaggedUsers,
                   readmeCache, quotaHit, completed>>
    /\ UNCHANGED WorkerVars

\* search.go:583-605 with the verdict v of the analysis.
RecordVerdict(u, v) ==
    IF u \in flaggedUsers
    THEN UNCHANGED <<flagRows, userRows, flaggedUsers>>
    ELSE /\ flagRows' = IF v = "suspicious"
                        THEN InsertHeuristicFlag(flagRows, u) ELSE flagRows
         /\ userRows' = InsertProcessedUser(userRows, u)
         /\ flaggedUsers' = flaggedUsers \cup {u}

\* AnalyzeUser and what the worker does with its result (search.go:577-607).
Analyze(r) ==
    /\ wk[r].pc = "analyze"
    /\ LET u == Owner(r)
       IN \/ /\ userCache[u] # NoVerdict     \* served from the Analyzer's cache
             /\ RecordVerdict(u, userCache[u])
             /\ UNCHANGED <<userCache, faults, quotaHit, errCh>>
             /\ wk' = [wk EXCEPT ![r].pc = AfterAnalyze(r)]
          \/ /\ userCache[u] = NoVerdict /\ ~ctxDone
             /\ \E v \in {"clean", "suspicious"} :
                   /\ userCache' = [userCache EXCEPT ![u] = v]
                   /\ RecordVerdict(u, v)
             /\ UNCHANGED <<faults, quotaHit, errCh>>
             /\ wk' = [wk EXCEPT ![r].pc = AfterAnalyze(r), ![r].remote = TRUE]
          \/ /\ userCache[u] = NoVerdict /\ ~ctxDone /\ faults < FaultCap
             /\ \E e \in {"quota", "error"} :
                   /\ quotaHit' = (quotaHit \/ e = "quota")
                   /\ errCh' = OnRemoteError(errCh, e)
                   /\ wk' = [wk EXCEPT ![r].pc = AfterAnalyze(r), ![r].remote = TRUE,
                                       ![r].remoteErr = e]
             /\ faults' = faults + 1
             /\ UNCHANGED <<userCache, flagRows, userRows, flaggedUsers>>
          \/ /\ userCache[u] = NoVerdict /\ ctxDone   \* the request fails on ctx
             /\ UNCHANGED <<userCache, flagRows, userRows, flaggedUsers,
                            faults, quotaHit, errCh>>
             /\ wk' = [wk EXCEPT ![r].pc = AfterAnalyze(r)]
    /\ UNCHANGED <<ledger, readmeCache, oldest, completed>>
    /\ UNCHANGED WorkerVars

\* CheckRepoFiles, whose error is only logged (search.go:609-622); it reads
\* the README through Client.GetRepoReadme (part_003:453-527).  The READMEs
\* of the directory hold both markers and no repository has a loader file,
\* so the check says malicious exactly when it has a README to read; with an
\* error it is taken to return malicious = false.
Content(r) ==
    /\ wk[r].pc = "content"
    /\ \/ /\ r \in readmeCache                \* cache hit
          /\ UNCHANGED <<readmeCache, faults, quotaHit, errCh>>
          /\ wk' = [wk EXCEPT ![r].pc = "insert", ![r].checked = TRUE,
                              ![r].isMalicious = TRUE]
       \/ /\ r \notin readmeCache /\ ~ctxDone
          /\ \E status \in {200, 404} :
                /\ readmeCache' = IF status = 200 THEN readmeCache \cup {r}
                                  ELSE readmeCache
                /\ wk' = [wk EXCEPT ![r].pc = "insert", ![r].remote = TRUE,
                                    ![r].checked = TRUE,
                                    ![r].isMalicious = (status = 200)]
          /\ UNCHANGED <<faults, quotaHit, errCh>>
       \/ /\ r \notin readmeCache /\ ~ctxDone /\ faults < FaultCap
          /\ \E e \in {"quota", "error"} :
                /\ quotaHit' = (quotaHit \/ e = "quota")
                /\ errCh' = OnRemoteError(errCh, e)
                /\ wk' = [wk EXCEPT ![r].pc = "insert", ![r].remote = TRUE,
                                    ![r].checked = TRUE, ![r].remoteErr = e]
          /\ faults' = faults + 1
          /\ UNCHANGED readmeCache
       \/ /\ r \notin readmeCache /\ ctxDone
          /\ UNCHANGED <<readmeCache, faults, quotaHit, errCh>>
          /\ wk' = [wk EXCEPT ![r].pc = "insert", ![r].checked = TRUE]
    /\ UNCHANGED <<ledger, userRows, flagRows, userCache, flaggedUsers,
                   oldest, completed>>
    /\ UNCHANGED WorkerVars

\* processRepository returns: its locals are gone.
Returned(w) ==
    [w EXCEPT !.pc = "done", !.remoteErr = "nil", !.checked = FALSE,
              !.isMalicious = FALSE]

\* InsertProcessedRepo and the return (search.go:624-630), then the update
\* of oldest under mu or the send on errCh (search.go:513-526).
Insert(r) ==
    /\ wk[r].pc = "insert"
    /\ LET T == world[r].updated
       IN \/ /\ faults < FaultCap           \* the statement fails
             /\ faults' = faults + 1
             /\ errCh' = TrySend(errCh, "error")
             /\ wk' = [wk EXCEPT ![r] = [Returned(wk[r]) EXCEPT !.failed = TRUE]]
             /\ UNCHANGED <<ledger, oldest, completed>>
          \/ /\ ledger' = InsertProcessedRepo(ledger, r, T)
             /\ completed' = completed \cup {r}
             /\ oldest' = MinOldest(oldest, T)
             /\ wk' = [wk EXCEPT ![r] = [Returned(wk[r]) EXCEPT !.wrote = TRUE]]
             /\ UNCHANGED <<faults, errCh>>
    /\ UNCHANGED <<userRows, flagRows, userCache, flaggedUsers, readmeCache,
                   quotaHit>>
    /\ UNCHANGED WorkerVars


-----------------------------------------------------------------------------
(* searchAndProcessRepositories (search.go:460-544) and runSearchMode *)

StoreVars == <<world, cfg, ledger, userRows, flagRows, userCache, flaggedUsers,
               readmeCache, completed>>

\* search.go:497-514: an empty page ends the pass, any other page starts one
\* goroutine per item.
Dispatch(its) ==
    IF its = {}
    THEN /\ runPc' = "returned"
         /\ passErr' = "nil"
         /\ UNCHANGED <<items, wk>>
    ELSE /\ runPc' = "draining"
         /\ items' = its
         /\ wk' = [r \in RepoIds |->
                     IF r \in its THEN [IdleWorker EXCEPT !.pc = "queued"]
                     ELSE wk[r]]
         /\ UNCHANGED passErr

\* client.SearchRepositories(ctx, queryStr, page, perPage) and what the page
\* loop does with its answer (search.go:492-500).
SearchPage ==
    /\ runPc = "paging"
    /\ \/ /\ ctxDone                          \* part_003:147-149
          /\ runPc' = "returned"
          /\ passErr' = "deadline"
          /\ UNCHANGED <<items, wk, searchCache, faults, quotaHit>>
       \/ /\ ~ctxDone
          /\ ~MustWait(searchRemaining, searchLimitBuffer, searchReset)
          /\ <<currentQuery, page>> \in searchCache
          /\ Dispatch(PageItems(currentQuery, page))
          /\ UNCHANGED <<searchCache, faults, quotaHit>>
       \/ /\ ~ctxDone
          /\ ~MustWait(searchRemaining, searchLimitBuffer, searchReset)
          /\ <<currentQuery, page>> \notin searchCache
          /\ searchCache' = searchCache \cup {<<currentQuery, page>>}
          /\ Dispatch(PageItems(currentQuery, page))
          /\ UNCHANGED <<faults, quotaHit>>
       \/ /\ ~ctxDone
          /\ ~MustWait(searchRemaining, searchLimitBuffer, searchReset)
          /\ <<currentQuery, page>> \notin searchCache
          /\ faults < FaultCap
          /\ faults' = faults + 1
          /\ \E e \in {"quota", "error"} :
                /\ passErr' = e
                /\ quotaHit' = (quotaHit \/ e = "quota")
          /\ runPc' = "returned"
          /\ UNCHANGED <<items, wk, searchCache>>
    /\ UNCHANGED <<currentQuery, page, oldest, errCh, ctxDone>>
    /\ UNCHANGED StoreVars

\* wg.Wait() returns when every goroutine of the page has called wg.Done().
WaitGroupDoneAfterFirst == \E r \in items : wk[r].pc = "done"
WaitGroupDone == \A r \in items : wk[r].pc = "done"

\* wg.Wait() and the rest of the page loop's body (search.go:529-543).  The
\* goroutines are gone after it; on a return so are page, items and errCh.
Join ==
    /\ runPc = "draining"
    /\ WaitGroupDone
    /\ IF errCh # <<>>
       THEN /\ passErr' = "processing"
            /\ runPc' = "returned"
            /\ page' = 1
            /\ errCh' = <<>>
       ELSE IF Cardinality(items) < perPage \/ page = maxPages
       THEN /\ passErr' = "nil"
            /\ runPc' = "returned"
            /\ page' = 1
            /\ UNCHANGED errCh
       ELSE /\ page' = page + 1
            /\ runPc' = "paging"
            /\ UNCHANGED <<passErr, errCh>>
    /\ items' = {}
    /\ wk' = [r \in RepoIds |-> IdleWorker]
    /\ UNCHANGED <<currentQuery, oldest, ctxDone, searchCache, faults, quotaHit>>
    /\ UNCHANGED StoreVars

\* The next call of searchAndProcessRepositories with the query q.
NextPass(q) ==
    /\ runPc' = "paging"
    /\ currentQuery' = q
    /\ page' = 1
    /\ oldest' = ZeroTime
    /\ errCh' = <<>>
    /\ passErr' = "nil"

\* The body of the main search loop after searchAndProcessRepositories has
\* returned (search.go:423-455).
RunLoop ==
    /\ runPc = "returned"
    /\ IF passErr # "nil"
       THEN IF IsCanceled(passErr)
            THEN runPc' = "done"
                 /\ UNCHANGED <<currentQuery, page, oldest, errCh, passErr>>
            ELSE \* time.Sleep(30s); FetchRateLimits within checkInterval; continue
                 /\ Since(lastCheck) < checkInterval
                 /\ NextPass(currentQuery)
       ELSE IF IsZero(oldest) \/ NewQuery(oldest) = currentQuery
            THEN runPc' = "done"
                 /\ UNCHANGED <<currentQuery, page, oldest, errCh, passErr>>
            ELSE NextPass(NewQuery(oldest))
    /\ UNCHANGED <<items, wk, ctxDone, searchCache, faults, quotaHit>>
    /\ UNCHANGED StoreVars

\* The deadline of context.WithTimeout(..., 60*time.Minute) passes.
DeadlineExpires ==
    /\ ~ctxDone
    /\ runPc # "done"
    /\ ctxDone' = TRUE
    /\ UNCHANGED <<runPc, currentQuery, page, items, oldest, errCh, passErr, wk,
                   searchCache, faults, quotaHit>>
    /\ UNCHANGED StoreVars

CrawlNext ==
    \/ SearchPage /\ UNCHANGED <<now, rlVars, cacheVars, anVars, restVars>>
    \/ \E r \in RepoIds : Lookup(r) /\ UNCHANGED <<now, rlVars, cacheVars, anVars, restVars>>
    \/ \E r \in RepoIds : Analyze(r) /\ UNCHANGED <<now, rlVars, cacheVars, anVars, restVars>>
    \/ \E r \in RepoIds : Content(r) /\ UNCHANGED <<now, rlVars, cacheVars, anVars, restVars>>
    \/ \E r \in RepoIds : Insert(r) /\ UNCHANGED <<now, rlVars, cacheVars, anVars, restVars>>
    \/ Join /\ UNCHANGED <<now, rlVars, cacheVars, anVars, restVars>>
    \/ RunLoop /\ UNCHANGED <<now, rlVars, cacheVars, anVars, restVars>>
    \/ DeadlineExpires /\ UNCHANGED <<now, rlVars, cacheVars, anVars, restVars>>

\* The limiter after the FetchRateLimits of search.go:412 has succeeded.
RLFetched ==
    /\ coreRemaining = CoreDefault
    /\ coreReset = ZeroTime
    /\ searchRemaining = SearchDefault
    /\ searchReset = ZeroTime
    /\ lastCheck = 0
    /\ mutex = "free"
    /\ rlPc = [c \in Callers |-> "idle"]
    /\ rlReq = [c \in Callers |-> NoReq]
    /\ rlResp = [c \in Callers |-> NoResp]
    /\ slept = [c \in Callers |-> FALSE]
    /\ sleepStart = 0
    /\ waitTime = 0

CrawlSpecInit == now = 0 /\ RLFetched /\ CacheInit /\ CrawlInit /\ AnalyzeInit /\ RestIdle

SpecCrawl == CrawlSpecInit /\ [][CrawlNext]_vars


\* The goroutines and the run loop keep taking steps.
SpecCrawlFair == SpecCrawl /\ WF_vars(CrawlNext)

-----------------------------------------------------------------------------
(* Properties of the crawl *)

C1_SecondRunIsNoOp ==
    \A r \in RepoIds : wk[r].after => ~wk[r].remote /\ ~wk[r].wrote

\* C3: on a fixed result set, with no failing call and no deadline, the run
\* loop reaches Done.
C3_CursorConverges == <>(runPc = "done" \/ ctxDone \/ faults > 0)

\* A search request goes out to the remote.
IssuesSearch ==
    /\ runPc = "paging" /\ runPc' # "paging"
    /\ ~ctxDone
    /\ <<currentQuery, page>> \notin searchCache

\* searchAndProcessRepositories is called again.
StartsPass == runPc = "returned" /\ runPc' = "paging"

\* C4: once a quota-exceeded error has arisen, in the page search or in a
\* worker, no further search is issued.
C4_NoSearchAfterQuota == [][quotaHit => ~IssuesSearch]_vars

\* C5: once a pass has ended on the passed deadline, the run loop starts no
\* further pass.
C5_DeadlineEndsRunLoop ==
    [][(ctxDone /\ passErr = "deadline") => ~StartsPass]_vars


-----------------------------------------------------------------------------
(* Analyzer.AnalyzeUser (analyzer.go:63-122) called by the goroutines of     *)
(* processor.go:86-143, one call per goroutine                               *)

crawlRest == <<world, cfg, ledger, flaggedUsers, readmeCache, searchCache, ctxDone,
               runPc, currentQuery, page, items, oldest, errCh, passErr, wk,
               faults, quotaHit, completed>>

InFlight(g) == an[g].pc \in {"check", "load", "fetch", "store", "record"}

\* A goroutine picks up a small repository of user u (processor.go:91-111).
Begin(g, u) ==
    /\ ~crashed
    /\ an[g].pc = "idle"
    /\ an' = [an EXCEPT ![g] =
                [IdleCall EXCEPT !.pc = "check", !.user = u,
                   !.peers = {p \in Goroutines \ {g} :
                                 InFlight(p) /\ an[p].user = u}]]
    /\ UNCHANGED <<processedUsers, crashed, userCache, flagRows, userRows>>

\* if processedUsers[repoItem.Owner] (processor.go:114): a read of a plain
\* map, not ordered with the write of processor.go:141 in another goroutine.
\* While such a write is pending the read yields either value, or the
\* runtime aborts on the concurrent map access.
CheckProcessed(g) ==
    /\ ~crashed
    /\ an[g].pc = "check"
    /\ LET u == an[g].user
           racing == \E p \in Goroutines \ {g} : an[p].pc = "record"
           seen == IF racing THEN BOOLEAN ELSE {u \in processedUsers}
       IN \/ /\ \E b \in seen :
                   an' = [an EXCEPT ![g].pc = IF b THEN "done" ELSE "load",
                                    ![g].result = IF b THEN "skipped" ELSE NoVerdict]
             /\ UNCHANGED crashed
          \/ /\ racing
             /\ crashed' = TRUE
             /\ UNCHANGED an
    /\ UNCHANGED <<processedUsers, userCache, flagRows, userRows>>

\* a.userCache.Load(username) (analyzer.go:65-74).
LoadCache(g) ==
    /\ ~crashed
    /\ an[g].pc = "load"
    /\ LET v == userCache[an[g].user]
       IN an' = IF v # NoVerdict
                THEN [an EXCEPT ![g].pc = "record", ![g].result = v]
                ELSE [an EXCEPT ![g].pc = "fetch"]
    /\ UNCHANGED <<processedUsers, crashed, userCache, flagRows, userRows>>

\* a.fetchUserData and the flags computed from it (analyzer.go:77-111).
Fetch(g) ==
    /\ ~crashed
    /\ an[g].pc = "fetch"
    /\ \/ \E v \in {"clean", "suspicious"} :
             an' = [an EXCEPT ![g].pc = "store", ![g].data = v,
                              ![g].fetched = TRUE]
       \/ an' = [an EXCEPT ![g].pc = "record", ![g].result = "error",
                           ![g].fetched = TRUE]
    /\ UNCHANGED <<processedUsers, crashed, userCache, flagRows, userRows>>

\* a.userCache.Store(username, analysisResult) and the return
\* (analyzer.go:113-121).
Store(g) ==
    /\ ~crashed
    /\ an[g].pc = "store"
    /\ userCache' = [userCache EXCEPT ![an[g].user] = an[g].data]
    /\ an' = [an EXCEPT ![g].pc = "record", ![g].result = an[g].data]
    /\ UNCHANGED <<processedUsers, crashed, flagRows, userRows>>

\* What the goroutine does with the result (processor.go:118-141).
RecordUser(g) ==
    /\ ~crashed
    /\ an[g].pc = "record"
    /\ LET u == an[g].user
       IN /\ flagRows' = IF an[g].result = "suspicious"
                         THEN InsertHeuristicFlag(flagRows, u) ELSE flagRows
          /\ userRows' = IF an[g].result = "error" THEN userRows
                         ELSE InsertProcessedUser(userRows, u)
          /\ processedUsers' = processedUsers \cup {u}
    /\ an' = [an EXCEPT ![g].pc = "done"]
    /\ UNCHANGED <<crashed, userCache>>

AnalyzeNext ==
    \/ \E g \in Goroutines : \E u \in Owners :
          Begin(g, u) /\ UNCHANGED <<now, rlVars, cacheVars, crawlRest, restVars>>
    \/ \E g \in Goroutines :
          CheckProcessed(g) /\ UNCHANGED <<now, rlVars, cacheVars, crawlRest, restVars>>
    \/ \E g \in Goroutines :
          LoadCache(g) /\ UNCHANGED <<now, rlVars, cacheVars, crawlRest, restVars>>
    \/ \E g \in Goroutines :
          Fetch(g) /\ UNCHANGED <<now, rlVars, cacheVars, crawlRest, restVars>>
    \/ \E g \in Goroutines :
          Store(g) /\ UNCHANGED <<now, rlVars, cacheVars, crawlRest, restVars>>
    \/ \E g \in Goroutines :
          RecordUser(g) /\ UNCHANGED <<now, rlVars, cacheVars, crawlRest, restVars>>

AnalyzeSpecInit == now = 0 /\ RLInit /\ CacheInit /\ CrawlIdle /\ AnalyzeInit /\ RestIdle

SpecAnalyze == AnalyzeSpecInit /\ [][AnalyzeNext]_vars

\* C2: of two calls of AnalyzeUser for the same user that overlap (one began
\* while the other was in flight), at most one fetches the user's data, and
\* when both have returned they hold the same verdict.
C2_SingleFlight ==
    \A g \in Goroutines : \A p \in an[g].peers :
        /\ ~(an[g].fetched /\ an[p].fetched)
        /\ (an[g].pc = "done" /\ an[p].pc = "done")
              => an[g].result = an[p].result


-----------------------------------------------------------------------------
(* The tables of the Database and its prepared statements (part_001:93-212) *)

MaxExecs == 3

\* The arguments of insertRepoStmt: repo_id, updated_at and is_malicious vary;
\* owner and name follow from repo_id, disk_usage and stargazer_count are fixed.
RepoRows ==
    [repo_id : RepoIds, updated_at : {1, 2}, disk_usage : {5},
     stargazer_count : {6}, is_malicious : BOOLEAN]

\* The arguments of insertFlagStmt.
FlagRows ==
    [entity_type : {"user"}, entity_id : Owners,
     flag : {"OriginalHeuristic", "NewHeuristic"}]

HasRepo(table, repoID) == \E i \in 1..Len(table) : table[i].repo_id = repoID

\* INSERT OR IGNORE INTO processed_repositories ...: repo_id is UNIQUE, so a
\* row whose repo_id is present is dropped without an error.
insertRepoStmtPlain(table, row) == Append(table, row)
insertRepoStmt(table, row) ==
    IF HasRepo(table, row.repo_id) THEN table ELSE Append(table, row)

\* INSERT INTO heuristic_flags ...: the table has no unique column but its
\* AUTOINCREMENT id, so every execution adds a row.
insertFlagStmtOrIgnore(table, row) ==
    IF \E i \in 1..Len(table) : table[i] = row THEN table ELSE Append(table, row)
insertFlagStmt(table, row) == Append(table, row)

\* Database.InsertProcessedRepo (part_001:188-194): Exec and its error.
ExecInsertRepo(row) ==
    /\ lastExec.n < MaxExecs
    /\ \/ /\ repoTable' = insertRepoStmt(repoTable, row)
          /\ lastExec' = [n |-> lastExec.n + 1, stmt |-> "insertRepo", row |-> row,
                          err |-> "nil", failed |-> FALSE]
       \/ /\ repoTable' = repoTable           \* the database fails
          /\ lastExec' = [n |-> lastExec.n + 1, stmt |-> "insertRepo", row |-> row,
                          err |-> "inserting processed repository", failed |-> TRUE]
    /\ UNCHANGED flagTable

\* Database.InsertHeuristicFlag (part_001:206-212): Exec and its error.
ExecInsertFlag(row) ==
    /\ lastExec.n < MaxExecs
    /\ \/ /\ flagTable' = insertFlagStmt(flagTable, row)
          /\ lastExec' = [n |-> lastExec.n + 1, stmt |-> "insertFlag", row |-> row,
                          err |-> "nil", failed |-> FALSE]
       \/ /\ flagTable' = flagTable           \* the database fails
          /\ lastExec' = [n |-> lastExec.n + 1, stmt |-> "insertFlag", row |-> row,
                          err |-> "inserting heuristic flag", failed |-> TRUE]
    /\ UNCHANGED repoTable

\* updateRepositoryStatusHandler (handlers.go:325-381), routed at
\* /api/repository/status: UPDATE processed_repositories SET is_malicious = ?
\* WHERE id = ?.  id is the AUTOINCREMENT key, the position of the row in
\* order of insertion; an id without a row updates nothing.
StatusValues == {"malicious", "clean", "unknown"}
updateRepositoryStatusHandler(method, repoID, statusStr) ==
    /\ repoTable' =
          IF method = "POST" /\ statusStr \in {"malicious", "clean"}
          THEN [i \in 1..Len(repoTable) |->
                  IF i = repoID
                  THEN [repoTable[i] EXCEPT !.is_malicious = (statusStr = "malicious")]
                  ELSE repoTable[i]]
          ELSE repoTable
    /\ UNCHANGED <<flagTable, lastExec>>

\* The statements of the workers and of the dashboard reach the database one
\* at a time, in any order.
LedgerNext ==
    \/ \E method \in {"GET", "POST"}, repoID \in 1..MaxExecs, statusStr \in StatusValues :
          updateRepositoryStatusHandler(method, repoID, statusStr)
             /\ UNCHANGED <<now, rlVars, cacheVars, crawlVars, anVars, cl, heVars, moreVars>>
    \/ \E row \in RepoRows :
          ExecInsertRepo(row) /\ UNCHANGED <<now, rlVars, cacheVars, crawlVars, anVars, cl, heVars, moreVars>>
    \/ \E row \in FlagRows :
          ExecInsertFlag(row) /\ UNCHANGED <<now, rlVars, cacheVars, crawlVars, anVars, cl, heVars, moreVars>>

LedgerSpecInit ==
    now = 0 /\ RLInit /\ CacheInit /\ CrawlIdle /\ AnalyzeInit /\ RestIdle

SpecLedger == LedgerSpecInit /\ [][LedgerNext]_vars

UniqueRepoIds(table) ==
    \A i, j \in 1..Len(table) : table[i].repo_id = table[j].repo_id => i = j

\* C11: processed_repositories never holds two rows with the same repo_id, and
\* an InsertProcessedRepo for a repo_id that is present leaves the table as it
\* is and, unless the database itself fails, returns nil.
C11_InsertIfAbsent ==
    /\ [](UniqueRepoIds(repoTable))
    /\ [][(lastExec'.n # lastExec.n /\ lastExec'.stmt = "insertRepo"
             /\ HasRepo(repoTable, lastExec'.row.repo_id))
          => /\ repoTable' = repoTable
             /\ ~lastExec'.failed => lastExec'.err = "nil"]_vars

\* C11 witness: an insert for a present repo_id with other column values has
\* returned nil.
C11_Witness ==
    /\ lastExec.stmt = "insertRepo" /\ lastExec.err = "nil"
    /\ \E i \in 1..Len(repoTable) :
          /\ repoTable[i].repo_id = lastExec.row.repo_id
          /\ repoTable[i] # lastExec.row

\* C12: every InsertHeuristicFlag that returns nil appends exactly one row to
\* heuristic_flags and leaves the rows before it as they were, also when the
\* same row is already there.
C12_FlagsAppendOnly ==
    [][(lastExec'.n # lastExec.n /\ lastExec'.stmt = "insertFlag"
          /\ lastExec'.err = "nil")
       => flagTable' = Append(flagTable, lastExec'.row)]_vars

\* C12 witness: two executions with the same arguments have left two rows.
C12_Witness ==
    \E i, j \in 1..Len(flagTable) : i # j /\ flagTable[i] = flagTable[j]


-----------------------------------------------------------------------------
(* The accessors of the Client (part_003:145-673) *)

MaxOutbound == 3
MaxCalls == 2
RetryAfter == 1

Ops == {"search", "user", "repos", "events", "readme", "tree", "releases"}

\* The request an accessor sends.
ClientReq(op) ==
    [ep |-> op,
     owner |-> IF op = "search" THEN None ELSE "alice",
     repo |-> IF op \in {"readme", "tree", "releases"} THEN "x" ELSE None]

\* cacheKey: the accessor and its arguments; GetUserRepositories has one key
\* per page.
cacheKey(op, p) == <<op, IF op = "repos" THEN p ELSE 1>>
LastPage == MaxCalls * (MaxOutbound - 1) + 1
ClientKeys == {cacheKey(op, p) : op \in Ops, p \in 1..LastPage}

\* fmt.Errorf(format, resp.Status, ...): the message and the status it quotes.
Errorf(msg, status) == [msg |-> msg, status |-> status]

\* The error an accessor builds from a response that is not 200.
StatusError(op, status) ==
    CASE op = "search"   -> Errorf("search failed", status)
      [] op = "user"     -> Errorf("failed to fetch user info", status)
      [] op = "repos"    -> Errorf("failed to fetch user repos", status)
      [] op = "events"   -> Errorf("failed to fetch user events", status)
      [] op = "readme"   -> Errorf("fetching readme", status)
      [] op = "tree"     -> Errorf("fetching repo tree", status)
      [] op = "releases" -> Errorf("failed to fetch releases", status)

DecodeError(op) ==
    CASE op = "search"   -> Errorf("decoding search results", "")
      [] op = "user"     -> Errorf("decoding user info", "")
      [] op = "repos"    -> Errorf("decoding user repositories", "")
      [] op = "events"   -> Errorf("decoding user events", "")
      [] op = "readme"   -> Errorf("decoding readme", "")
      [] op = "tree"     -> Errorf("decoding repo tree", "")
      [] op = "releases" -> Errorf("decoding releases", "")

\* What httpClient.Do can give: no response, or a response with a status and
\* perhaps a Retry-After header ("1" parses with ParseDuration, "soon" does
\* not).
Kinds == {"transport", "200", "403", "403 Retry-After: 1", "403 Retry-After: soon",
          "404", "500"}
Status(kind) ==
    CASE kind = "200" -> "200 OK"
      [] kind \in {"403", "403 Retry-After: 1", "403 Retry-After: soon"} -> "403 Forbidden"
      [] kind = "404" -> "404 Not Found"
      [] kind = "500" -> "500 Internal Server Error"
      [] OTHER -> ""

\* The rate-limit headers of a response: none, or a remaining count under
\* the buffer with a reset time.
ClientHeaders(op) ==
    {NoResp, [rem |-> Buffer(AdmitClass(ClientReq(op))) - 1, reset |-> ResetAt]}

\* The bodies of a 200: a page of 100 repositories, a shorter page, or bytes
\* that do not decode.
Bodies(op) == IF op = "repos" THEN {"full", "short", "garbled"} ELSE {"short", "garbled"}

\* Does the accessor come back to its first line after this response?
\* SearchRepositories calls itself after the sleep of a parsable Retry-After.
Retries(op, kind) == op = "search" /\ kind = "403 Retry-After: 1"

\* The error for a 403: only SearchRepositories looks at the status, and has
\* its own text when there is no Retry-After.
ForbiddenErrorSameAsOther(op, kind) == StatusError(op, "500 Internal Server Error")
ForbiddenError(op, kind) ==
    IF op = "search" /\ kind = "403"
    THEN Errorf("search rate limit exceeded, please retry later", "")
    ELSE StatusError(op, "403 Forbidden")

\* What every accessor does first with a response: UpdateFromResponse, then
\* the test of resp.StatusCode.  (cl.steps lists what the accessor has done
\* since its last CheckRateLimit.)
OnResponseStatusFirst == <<"status", "record">>
OnResponse == <<"record", "status">>

\* The bytes of a response that is not a 200, and the error for a 200 whose
\* body io.ReadAll could not read to its end.
ErrorBody == "error body"
ReadError(op) ==
    Errorf(CASE op = "readme"   -> "reading readme body"
             [] op = "tree"     -> "reading tree body"
             [] op = "releases" -> "reading releases body"
             [] OTHER           -> "reading response body", "")

\* What an accessor does to the cache with the bytes of a response it has
\* read: Set after a 200 only; every other status returns before it.
CacheResponseAnyStatus(cache, key, status, data) == APICacheSet(cache, key, data)
CacheResponse(cache, key, status, data) ==
    IF status = "200 OK" THEN APICacheSet(cache, key, data) ELSE cache

\* A caller invokes an accessor.
Invoke(op) ==
    /\ cl.pc \in {"idle", "returned"}
    /\ cl.calls < MaxCalls
    /\ cl' = [op |-> op, pc |-> "entry", page |-> 1, outbound |-> 0, sleeps |-> 0,
              steps |-> <<>>,
              err |-> NilError, last |-> "none", calls |-> cl.calls + 1]
    /\ UNCHANGED <<now, rlVars, cacheVars>>

\* The first lines of an accessor (of the loop body in GetUserRepositories):
\* ctx.Err() in SearchRepositories, then CheckRateLimit on the budget class,
\* with its sleep to the reset time and the grace.
Enter ==
    /\ cl.pc = "entry"
    /\ mutex = "free"
    /\ LET apiType == AdmitClass(ClientReq(cl.op))
       IN \/ /\ cl.op = "search"              \* ctx.Err() != nil
             /\ cl' = [cl EXCEPT !.pc = "returned",
                                 !.err = Errorf("context canceled", "")]
             /\ UNCHANGED <<now, rlVars>>
          \/ /\ MustWait(Remaining(apiType), Buffer(apiType), Reset(apiType))
             /\ now' = now + Until(Reset(apiType)) + Grace
             /\ searchRemaining' = IF apiType = "search"
                                   THEN AfterWaitRemaining("search") ELSE searchRemaining
             /\ coreRemaining' = IF apiType = "core"
                                 THEN AfterWaitRemaining("core") ELSE coreRemaining
             /\ slept' = [slept EXCEPT !["main"] = TRUE]
             /\ cl' = [cl EXCEPT !.pc = "admitted", !.steps = <<"admit">>]
             /\ UNCHANGED <<coreReset, searchReset, lastCheck, mutex, rlPc, rlReq,
                            rlResp, sleepStart, waitTime>>
          \/ /\ ~MustWait(Remaining(apiType), Buffer(apiType), Reset(apiType))
             /\ cl' = [cl EXCEPT !.pc = "admitted", !.steps = <<"admit">>]
             /\ UNCHANGED <<now, rlVars>>
    /\ UNCHANGED cacheVars

\* What the accessor does with the bytes of a 200 or of a cache hit.
Parsed(body) ==
    IF body = "garbled"
    THEN [cl EXCEPT !.pc = "returned", !.err = DecodeError(cl.op)]
    ELSE IF cl.op = "repos" /\ body = "full"
    THEN [cl EXCEPT !.pc = "entry", !.page = @ + 1]
    ELSE [cl EXCEPT !.pc = "returned", !.err = NilError]

\* The bytes come from the cache: no request is sent.
CacheHit ==
    /\ cl.pc = "admitted"
    /\ APICacheGet(apiCache, cacheKey(cl.op, cl.page), cacheTTL).hit
    /\ cl' = [Parsed(APICacheGet(apiCache, cacheKey(cl.op, cl.page), cacheTTL).Data)
                EXCEPT !.steps = @ \o <<"lookup", "hit">>]
    /\ UNCHANGED <<now, rlVars, cacheVars>>

\* httpClient.Do fails: no response, nothing recorded.
Transport ==
    /\ cl.pc = "admitted"
    /\ ~APICacheGet(apiCache, cacheKey(cl.op, cl.page), cacheTTL).hit
    /\ cl' = [cl EXCEPT !.pc = "returned", !.outbound = @ + 1, !.last = "transport",
                        !.err = Errorf("transport", ""),
                        !.steps = @ \o <<"lookup", "miss", "do">>]
    /\ UNCHANGED <<now, rlVars, cacheVars>>

\* httpClient.Do returns a 200: UpdateFromResponse, Set, and the parsing.
Ok(hdrRem, hdrReset, body) ==
    /\ cl.pc = "admitted"
    /\ ~APICacheGet(apiCache, cacheKey(cl.op, cl.page), cacheTTL).hit
    /\ body = "full" => cl.outbound + 1 < MaxOutbound
    /\ UpdateFromResponse(ClientReq(cl.op), hdrRem, hdrReset)
    /\ apiCache' = CacheResponse(apiCache, cacheKey(cl.op, cl.page), Status("200"), body)
    /\ cl' = [Parsed(body) EXCEPT !.outbound = @ + 1, !.last = "200",
                                  !.steps = @ \o <<"lookup", "miss", "do">>
                                                \o OnResponse \o <<"set">>]
    /\ UNCHANGED <<now, rlPc, rlReq, rlResp, slept, sleepStart, waitTime,
                   lastGet, setLog, ticks>>

\* httpClient.Do returns another status: UpdateFromResponse and the branch on
\* resp.StatusCode.
NotOk(hdrRem, hdrReset, kind) ==
    /\ cl.pc = "admitted"
    /\ ~APICacheGet(apiCache, cacheKey(cl.op, cl.page), cacheTTL).hit
    /\ kind \notin {"transport", "200"}
    /\ Retries(cl.op, kind) => cl.outbound + 1 < MaxOutbound
    /\ UpdateFromResponse(ClientReq(cl.op), hdrRem, hdrReset)
    /\ IF Retries(cl.op, kind)
       THEN /\ now' = now + RetryAfter        \* time.Sleep(d)
            /\ cl' = [cl EXCEPT !.pc = "entry", !.outbound = @ + 1, !.sleeps = @ + 1,
                                !.last = kind,
                                !.steps = @ \o <<"lookup", "miss", "do">> \o OnResponse]
       ELSE /\ now' = now
            /\ cl' = [cl EXCEPT
                        !.pc = "returned", !.outbound = @ + 1, !.last = kind,
                        !.steps = @ \o <<"lookup", "miss", "do">> \o OnResponse,
                        !.err = IF cl.op = "readme" /\ kind = "404" THEN NilError
                                ELSE IF Status(kind) = "403 Forbidden"
                                THEN ForbiddenError(cl.op, kind)
                                ELSE StatusError(cl.op, Status(kind))]
    /\ apiCache' = CacheResponse(apiCache, cacheKey(cl.op, cl.page), Status(kind),
                                 ErrorBody)
    /\ UNCHANGED <<rlPc, rlReq, rlResp, slept, sleepStart, waitTime,
                   lastGet, setLog, ticks>>

\* httpClient.Do returns a 200 whose body breaks off: UpdateFromResponse, the
\* test of the status, and the error of io.ReadAll; Set is not reached.
ReadFails(hdrRem, hdrReset) ==
    /\ cl.pc = "admitted"
    /\ ~APICacheGet(apiCache, cacheKey(cl.op, cl.page), cacheTTL).hit
    /\ UpdateFromResponse(ClientReq(cl.op), hdrRem, hdrReset)
    /\ cl' = [cl EXCEPT !.pc = "returned", !.outbound = @ + 1, !.last = "200",
                        !.steps = @ \o <<"lookup", "miss", "do">> \o OnResponse,
                        !.err = ReadError(cl.op)]
    /\ UNCHANGED <<now, rlPc, rlReq, rlResp, slept, sleepStart, waitTime, cacheVars>>

ClientRest == <<crawlVars, anVars, dbVars, heVars, moreVars>>

ClientNext ==
    \/ \E op \in Ops : Invoke(op) /\ UNCHANGED ClientRest
    \/ Enter /\ UNCHANGED ClientRest
    \/ CacheHit /\ UNCHANGED ClientRest
    \/ Transport /\ UNCHANGED ClientRest
    \/ \E hdr \in ClientHeaders(cl.op) :
          \E body \in Bodies(cl.op) : Ok(hdr.rem, hdr.reset, body) /\ UNCHANGED ClientRest
    \/ \E hdr \in ClientHeaders(cl.op) :
          \E kind \in Kinds : NotOk(hdr.rem, hdr.reset, kind) /\ UNCHANGED ClientRest
    \/ \E hdr \in ClientHeaders(cl.op) :
          ReadFails(hdr.rem, hdr.reset) /\ UNCHANGED ClientRest

\* NewClient: an empty cache and a fresh RateLimiter.
ClientSpecInit ==
    /\ now = 0 /\ RLInit
    /\ apiCache = [k \in ClientKeys |-> NoEntry]
    /\ lastGet = NoGet
    /\ setLog = [k \in CacheKeys |-> NoEntry]
    /\ ticks = 0
    /\ CrawlIdle /\ AnalyzeInit /\ RestIdle

SpecClient == ClientSpecInit /\ [][ClientNext]_vars


\* C13: one invocation of SearchRepositories sends at most two requests and
\* sleeps at most once for a Retry-After, whatever the server answers.
C13_AtMostOneRetry ==
    cl.op = "search" => cl.outbound <= 2 /\ cl.sleeps <= 1

\* C14 as stated: an accessor that returns on a 403 without Retry-After has
\* sent exactly one request and has not slept.
C14_ExactlyOneOutbound ==
    (cl.pc = "returned" /\ cl.last = "403") => cl.outbound = 1 /\ cl.sleeps = 0

\* C14: on a 403 without Retry-After every accessor returns at once, with no
\* sleep and no further request, an error that it returns for no response
\* other than a 403.
C14_ForbiddenIsTerminal ==
    /\ [][(cl.pc = "admitted" /\ cl'.outbound = cl.outbound + 1 /\ cl'.last = "403")
          => /\ cl'.pc = "returned"
             /\ cl'.err = ForbiddenError(cl.op, "403")
             /\ cl'.sleeps = cl.sleeps
             /\ now' = now]_vars
    /\ [](\A op \in Ops :
             (cl.op = op /\ cl.pc = "returned" /\ cl.err = ForbiddenError(op, "403"))
             => Status(cl.last) = "403 Forbidden")

\* C14 witness: GetUserRepositories has returned on a 403 for its second page.
C14_Witness ==
    /\ cl.op = "repos" /\ cl.pc = "returned" /\ cl.last = "403"
    /\ cl.outbound = 2 /\ cl.err = ForbiddenError("repos", "403")


\* Is there an earlier step named e before position i of the steps?
Earlier(steps, e, i) == \E j \in 1..(i - 1) : steps[j] = e

\* C27: an accessor admits before it looks in the cache, sends a request only
\* after a miss, does nothing more than parse after a hit (no request, no
\* quota record, no cache write), and records the quota of every response
\* before it tests the status and before it writes the cache.
C27_CallOrder ==
    /\ [](\A i \in 1..Len(cl.steps) :
            /\ cl.steps[i] = "lookup" => i > 1 /\ cl.steps[i - 1] = "admit"
            /\ cl.steps[i] = "do" => i > 1 /\ cl.steps[i - 1] = "miss"
            /\ cl.steps[i] = "hit" => i = Len(cl.steps)
            /\ cl.steps[i] \in {"status", "set"} => Earlier(cl.steps, "record", i)
            /\ cl.steps[i] = "record" => Earlier(cl.steps, "do", i))
    /\ [][cl.pc = "admitted" =>
            IF APICacheGet(apiCache, cacheKey(cl.op, cl.page), cacheTTL).hit
            THEN /\ cl'.outbound = cl.outbound
                 /\ UNCHANGED <<coreRemaining, coreReset, searchRemaining, searchReset,
                                lastCheck, apiCache>>
            ELSE /\ cl'.outbound = cl.outbound + 1
                 /\ cl'.last # "transport" => lastCheck' = now
                 /\ apiCache' # apiCache => cl'.last = "200"]_vars
    /\ [][cl.pc # "admitted" =>
            /\ cl'.outbound = cl.outbound \/ cl'.outbound = 0
            /\ apiCache' = apiCache /\ lastCheck' = lastCheck]_vars

\* C27 witness: the second call of an accessor is answered from the cache.
C27_Witness ==
    /\ cl.pc = "returned" /\ cl.calls = 2 /\ cl.outbound = 0
    /\ cl.steps = <<"admit", "lookup", "hit">>

-----------------------------------------------------------------------------
(* The crawl with a pool smaller than a page, and with pages of one item *)

\* The result sets whose repositories were all created at time 1: the first
\* query matches them all.
PoolWorlds == {w \in Worlds : \A r \in RepoIds : w[r].created = 1}

PoolSpecInit ==
    /\ now = 0 /\ RLFetched /\ CacheInit
    /\ \E w \in PoolWorlds : \E c \in PoolConfigs : CrawlInitCfg(w, PriorLedger, c)
    /\ AnalyzeInit /\ RestIdle

SpecPool == PoolSpecInit /\ [][CrawlNext]_vars

\* searchAndProcessRepositories returns.
Returns == runPc \in {"paging", "draining"} /\ runPc' = "returned"

\* The items of the pages this invocation has fetched: at the end of a page
\* the pages up to it, at a search the pages before it.
FetchedItems ==
    UNION {PageItems(currentQuery, p) :
             p \in 1..(IF runPc = "draining" THEN page ELSE page - 1)}

\* The items whose processRepository returned an error.
FailedItems == {r \in items : wk[r].failed}

\* The least updated_at of a set of items, the zero time for no item.
OldestOf(S) ==
    IF S = {} THEN ZeroTime
    ELSE CHOOSE t \in {world[r].updated : r \in S} : \A r \in S : t <= world[r].updated

C16_BoundedPool == Cardinality(Running) <= maxConcurrent

\* C16 witness: the pool is full and a goroutine waits for a slot.
C16_Witness ==
    /\ Cardinality(Running) = maxConcurrent
    /\ \E r \in RepoIds : wk[r].pc = "queued"

\* C17: an invocation does not return an error because a ledger lookup or
\* write failed.
C17_LedgerFailureNotFatal ==
    [][(Returns /\ FailedItems # {}) => passErr' = "nil"]_vars

\* C18: a worker whose account analysis or content check ends in a non-quota
\* error goes on to its next stage and sends nothing on errCh, and an
\* invocation returns a processing error only when a ledger call failed.
C18_RemoteErrorNotFatal ==
    /\ [][\A r \in RepoIds :
             (wk[r].pc \in {"analyze", "content"} /\ wk'[r].pc # wk[r].pc
                /\ faults' # faults /\ quotaHit' = quotaHit)
             => /\ errCh' = errCh
                /\ wk'[r].pc = IF wk[r].pc = "analyze" THEN AfterAnalyze(r) ELSE "insert"
                /\ ~wk'[r].failed]_vars
    /\ [][(Returns /\ passErr' = "processing") => FailedItems # {}]_vars

\* C18 witness: the analysis of a worker's account failed with a non-quota
\* error, the worker wrote its ledger row, and errCh is empty.
C18_Witness ==
    \E r \in RepoIds :
        /\ wk[r].pc = "done" /\ wk[r].wrote /\ wk[r].remote
        /\ world[r].size < emptyThreshold
        /\ userCache[Owner(r)] = NoVerdict
        /\ ~ctxDone /\ ~quotaHit /\ faults > 0
        /\ errCh = <<>>


-----------------------------------------------------------------------------
(* The account heuristics (part_003:1-84, analyzer.go:63-122, 207-221) *)

\* Thresholds for flagging user accounts; durations are in hours.
minTotalStarsForOriginal == 10
minEmptyCountForOriginal == 20
minSuspiciousReposCountForNew == 5
maxContributionsForNew == 5
minTotalStarsForRecentNone == 10 - 10
minTotalStarsForRecent == 10
maxAccountAgeForRecent == 10 * 24

\* The repositories of the inputs: empty without stars, empty with 5 and with
\* 4 stars, and one of size 10 with 10 stars.
Bare == [DiskUsage |-> 0, StargazerCount |-> 0]
Farmed == [DiskUsage |-> 9, StargazerCount |-> 5]
Faint == [DiskUsage |-> 9, StargazerCount |-> 4]
Full == [DiskUsage |-> 10, StargazerCount |-> 10]

Replicate(x, n) == [i \in 1..n |-> x]

RepoLists ==
    {Replicate(Bare, a) \o Replicate(Farmed, b) \o Replicate(Full, c) \o Replicate(Faint, d) :
        a \in {0, 15, 19, 20}, b \in {0, 1, 2, 4, 5}, c \in {0, 1}, d \in {0, 1}}

\* computeRepoMetrics: one pass over the repositories.
RECURSIVE computeRepoMetrics(_)
computeRepoMetrics(repos) ==
    IF repos = <<>>
    THEN [totalStars |-> 0, emptyCount |-> 0, suspiciousEmptyCount |-> 0]
    ELSE LET m == computeRepoMetrics(SubSeq(repos, 1, Len(repos) - 1))
             repo == repos[Len(repos)]
         IN [totalStars |-> m.totalStars + repo.StargazerCount,
             emptyCount |-> m.emptyCount
                            + (IF repo.DiskUsage < emptyThreshold THEN 1 ELSE 0),
             suspiciousEmptyCount |-> m.suspiciousEmptyCount
                            + (IF repo.DiskUsage < emptyThreshold /\ repo.StargazerCount >= 5
                               THEN 1 ELSE 0)]

HeuristicResult(flag, name) == [Flag |-> flag, Name |-> name]

OriginalHeuristicStrict(data, repos) ==
    LET m == computeRepoMetrics(repos)
    IN HeuristicResult(m.totalStars > minTotalStarsForOriginal
                         /\ m.emptyCount > minEmptyCountForOriginal,
                       "OriginalHeuristic")
OriginalHeuristic(data, repos) ==
    LET m == computeRepoMetrics(repos)
    IN HeuristicResult(m.totalStars >= minTotalStarsForOriginal
                         /\ m.emptyCount >= minEmptyCountForOriginal,
                       "OriginalHeuristic")

NewHeuristic(data, repos) ==
    LET m == computeRepoMetrics(repos)
    IN HeuristicResult(m.suspiciousEmptyCount >= minSuspiciousReposCountForNew
                         /\ data.Contributions <= maxContributionsForNew,
                       "NewHeuristic")

RecentHeuristic(data, repos) ==
    LET m == computeRepoMetrics(repos)
        accountAge == Since(data.CreatedAt)
    IN HeuristicResult(accountAge < maxAccountAgeForRecent
                         /\ m.totalStars >= minTotalStarsForRecent,
                       "RecentHeuristic")

\* EvaluateUserHeuristics: the result of every heuristic in order, and
\* whether one of them has its flag set.
EvaluateUserHeuristicsFirstOnly(data, repos) ==
    LET results == <<OriginalHeuristic(data, repos), NewHeuristic(data, repos),
                     RecentHeuristic(data, repos)>>
    IN [by |-> "EvaluateUserHeuristics", results |-> results,
        suspicious |-> results[1].Flag]
EvaluateUserHeuristics(data, repos) ==
    LET results == <<OriginalHeuristic(data, repos), NewHeuristic(data, repos),
                     RecentHeuristic(data, repos)>>
    IN [by |-> "EvaluateUserHeuristics", results |-> results,
        suspicious |-> \E i \in 1..Len(results) : results[i].Flag]

\* What AnalyzeUser returns for an account without repositories
\* (analyzer.go:82-89): AnalysisResult{Suspicious: false}, every flag and
\* every metric at its zero value.
EmptyAnalysis ==
    [by |-> "AnalyzeUser",
     results |-> <<HeuristicResult(FALSE, "OriginalHeuristic"),
                   HeuristicResult(FALSE, "NewHeuristic"),
                   HeuristicResult(FALSE, "RecentHeuristic")>>,
     suspicious |-> FALSE]

\* The flags AnalyzeUser computes itself from the metrics (analyzer.go:91-111).
ComputeFlags(data) ==
    LET m == computeRepoMetrics(data.Repositories)
        accountAge == Since(data.CreatedAt)
        flagOriginal == m.totalStars >= minTotalStarsForOriginal
                        /\ m.emptyCount >= minEmptyCountForOriginal
        flagNew == m.suspiciousEmptyCount >= minSuspiciousReposCountForNew
                   /\ data.Contributions <= maxContributionsForNew
        flagRecent == accountAge < maxAccountAgeForRecent
                      /\ m.totalStars >= minTotalStarsForRecent
    IN [by |-> "AnalyzeUser",
        results |-> <<HeuristicResult(flagOriginal, "OriginalHeuristic"),
                      HeuristicResult(flagNew, "NewHeuristic"),
                      HeuristicResult(flagRecent, "RecentHeuristic")>>,
        suspicious |-> flagOriginal \/ flagNew \/ flagRecent]

\* AnalyzeUser after fetchUserData: an account without repositories is clean
\* without a look at the rules.
AnalyzeUserFlags(data) ==
    IF Len(data.Repositories) = 0 THEN EmptyAnalysis ELSE ComputeFlags(data)

Evaluate ==
    /\ hOut.by = "none"
    /\ hOut' = EvaluateUserHeuristics(hIn, hIn.Repositories)
    /\ UNCHANGED hIn

AnalyzeFlags ==
    /\ hOut.by = "none"
    /\ hOut' = AnalyzeUserFlags(hIn)
    /\ UNCHANGED hIn

HeurRest == <<now, rlVars, cacheVars, crawlVars, anVars, dbVars, cl, moreVars>>

HeurNext ==
    \/ Evaluate /\ UNCHANGED HeurRest
    \/ AnalyzeFlags /\ UNCHANGED HeurRest

\* The accounts: created 241, 240, 239 and 24 hours before now.
HeurSpecInit ==
    /\ now = 10 * 24 + 1
    /\ RLInit /\ CacheInit /\ CrawlIdle /\ AnalyzeInit /\ DbInit /\ ClientIdle /\ MoreIdle
    /\ hIn \in [CreatedAt : {0, 1, 2, now - 24}, Contributions : {0, 5, 6},
                Repositories : RepoLists]
    /\ hOut = NoResult

SpecHeuristics == HeurSpecInit /\ [][HeurNext]_vars

\* The metrics of the input, counted without computeRepoMetrics.
RECURSIVE StarSum(_, _)
StarSum(repos, n) == IF n = 0 THEN 0 ELSE StarSum(repos, n - 1) + repos[n].StargazerCount
TotalStars == StarSum(hIn.Repositories, Len(hIn.Repositories))
LowContent == {i \in 1..Len(hIn.Repositories) : hIn.Repositories[i].DiskUsage < 10}
LowContentCount == Cardinality(LowContent)
LowContentStarredCount ==
    Cardinality({i \in LowContent : hIn.Repositories[i].StargazerCount >= 5})
AgeHours == now - hIn.CreatedAt

\* C19: the evaluation returns one result per rule, three in all, and the
\* account is suspicious exactly when a result has its flag set; an account
\* with no stars, no repositories, no contributions and an age of one day is
\* clean.
C19_VerdictIsOrOfRules ==
    hOut.by # "none" =>
        /\ Len(hOut.results) = 3
        /\ {hOut.results[i].Name : i \in 1..3}
             = {"OriginalHeuristic", "NewHeuristic", "RecentHeuristic"}
        /\ hOut.suspicious <=> \E i \in 1..3 : hOut.results[i].Flag
        /\ (TotalStars = 0 /\ LowContentCount = 0 /\ hIn.Contributions = 0 /\ AgeHours = 24)
             => ~hOut.suspicious

\* C19 witness: only the third rule fires and the account is suspicious.
C19_Witness ==
    /\ hOut.by = "EvaluateUserHeuristics" /\ hOut.suspicious
    /\ ~hOut.results[1].Flag /\ ~hOut.results[2].Flag /\ hOut.results[3].Flag

\* C20: the first rule fires iff total stars >= 10 and at least 20
\* repositories are low in content; the second iff at least 5 low-content
\* repositories have 5 stars or more and the contributions are at most 5; the
\* third iff the account is younger than 10 days and total stars >= 10.
C20_RuleTable ==
    hOut.by # "none" =>
        /\ hOut.results[1].Flag <=> (TotalStars >= 10 /\ LowContentCount >= 20)
        /\ hOut.results[2].Flag <=> (LowContentStarredCount >= 5 /\ hIn.Contributions <= 5)
        /\ hOut.results[3].Flag <=> (AgeHours < 240 /\ TotalStars >= 10)

\* C20 witness: exactly on the boundaries of the first rule (10 stars, 20
\* low-content repositories) with an account of 10 days and 6 contributions:
\* only the first rule fires.
C20_Witness ==
    /\ hOut.by = "EvaluateUserHeuristics"
    /\ TotalStars = 10 /\ LowContentCount = 20 /\ AgeHours = 240
    /\ hIn.Contributions = 6
    /\ hOut.results[1].Flag /\ ~hOut.results[2].Flag /\ ~hOut.results[3].Flag


-----------------------------------------------------------------------------
(* The content checks of a repository (part_002:60-102, part_003:485-672) *)

\* Text is a sequence of words, a path a sequence of segments.
\* strings.ToLower, word by word.
Lower(w) ==
    CASE w \in {"DOWNLOAD", "Download"} -> "download"
      [] w \in {"LINK", "Link"} -> "link"
      [] w \in {"PASSWORD", "Password"} -> "password"
      [] w \in {"LOADER.ZIP", "Loader.Zip"} -> "loader.zip"
      [] w \in {"LOADER.RAR", "Loader.rar"} -> "loader.rar"
      [] w = "Dist" -> "dist"
      [] OTHER -> w
ToLower(str) == [i \in 1..Len(str) |-> Lower(str[i])]

\* strings.Contains(str, substr)
Contains(str, substr) ==
    \E i \in 0..(Len(str) - Len(substr)) : SubSeq(str, i + 1, i + Len(substr)) = substr

\* The pieces the READMEs of the inputs are made of.
Chunks ==
    {<<"DOWNLOAD", "LINK">>, <<"download", "link">>, <<"Download">>, <<"link">>,
     <<"PASSWORD", ":", "2025">>, <<"password", ":", "2025">>,
     <<"password", ":", "2024">>, <<"Password">>, <<"hello">>}
Readmes == {<<>>} \cup Chunks \cup {a \o b : a \in Chunks, b \in Chunks}

\* The blobs of a tree fetched with recursive=1, by path.
Trees ==
    {<<>>, <<<<"main.go">>>>, <<<<"main.go">>, <<"LOADER.ZIP">>>>, <<<<"Loader.rar">>>>,
     <<<<"loader.zip.txt">>>>, <<<<"Dist", "loader.zip">>, <<"main.go">>>>}

\* The asset names of the releases.
AssetLists == {<<>>, <<<<"setup.exe">>>>, <<<<"setup.exe">>, <<"LOADER.RAR">>>>}

\* ReadmeChecker.Check
ReadmeCheckerCheckEitherMarker(repo) ==
    IF repo.Readme = <<>> THEN FALSE
    ELSE LET lower == ToLower(repo.Readme)
         IN Contains(lower, <<"download", "link">>)
              \/ Contains(lower, <<"password", ":", "2025">>)
ReadmeCheckerCheck(repo) ==
    IF repo.Readme = <<>> THEN FALSE
    ELSE LET lower == ToLower(repo.Readme)
         IN Contains(lower, <<"download", "link">>)
              /\ Contains(lower, <<"password", ":", "2025">>)

\* The comparison of LoaderChecker.Check and of CheckRepoReleases.
IsLoader(name) ==
    LET lower == ToLower(name)
    IN lower = <<"loader.zip">> \/ lower = <<"loader.rar">>

\* The loop of LoaderChecker.Check over repo.TreeEntries.
TreeHasLoader(repo) == \E i \in 1..Len(repo.TreeEntries) : IsLoader(repo.TreeEntries[i])

\* The loop of CheckRepoReleases over the assets of the releases.
ReleasesHaveLoader(assets) == \E i \in 1..Len(assets) : IsLoader(assets[i])

\* GetRepoReadme after the response: 404 is an empty README and no error.
OnReadmeStatusNotFoundIsError(status, content) ==
    IF status = "200" THEN [Readme |-> content, err |-> "nil"]
    ELSE [Readme |-> <<>>, err |-> "fetching readme"]
OnReadmeStatus(status, content) ==
    IF status = "200" THEN [Readme |-> content, err |-> "nil"]
    ELSE IF status = "404" THEN [Readme |-> <<>>, err |-> "nil"]
    ELSE [Readme |-> <<>>, err |-> "fetching readme"]

\* The README that was fetched becomes repo.Readme.
FillReadme(c, res) ==
    [c EXCEPT !.Readme = res.Readme, !.err = res.err,
              !.pc = IF res.err = "nil" THEN "fetched" ELSE "failed"]

GetReadme ==
    /\ cc.pc = "start"
    /\ cc' = FillReadme(cc, OnReadmeStatus(cc.status, cc.content))

ReadmeCheck ==
    /\ cc.pc = "fetched"
    /\ cc.readme = "none"
    /\ cc' = [cc EXCEPT !.readme = IF ReadmeCheckerCheck(cc) THEN "malicious" ELSE "clean"]

LoaderCheck ==
    /\ cc.pc # "idle"
    /\ cc.loader = "none"
    /\ IF TreeHasLoader(cc)
       THEN cc' = [cc EXCEPT !.loader = "malicious"]
       ELSE cc' = [cc EXCEPT !.releaseCalls = @ + 1,
                             !.loader = IF cc.relFails THEN "error"
                                        ELSE IF ReleasesHaveLoader(cc.assets)
                                        THEN "malicious" ELSE "clean"]

ContentRest == <<now, rlVars, cacheVars, crawlVars, anVars, dbVars, cl, heVars, proc,
                ev>>

ContentNext ==
    \/ GetReadme /\ UNCHANGED ContentRest
    \/ ReadmeCheck /\ UNCHANGED ContentRest
    \/ LoaderCheck /\ UNCHANGED ContentRest

ContentSpecInit ==
    /\ now = 0 /\ RLInit /\ CacheInit /\ CrawlIdle /\ AnalyzeInit
    /\ DbInit /\ ClientIdle /\ HeurIdle /\ ProcIdle /\ EventsIdle
    /\ \E st \in {"200", "404", "500"}, rd \in Readmes, tr \in Trees :
          \E as \in AssetLists, rf \in BOOLEAN :
             cc = [NoCheck EXCEPT !.pc = "start", !.status = st,
                                  !.content = IF st = "200" THEN rd ELSE <<>>,
                                  !.TreeEntries = tr, !.assets = as, !.relFails = rf]

SpecContent == ContentSpecInit /\ [][ContentNext]_vars

\* Does the text hold the words of the marker in a row, in any case?
HasDownloadMarker(str) ==
    \E i \in 1..(Len(str) - 1) :
        /\ str[i] \in {"DOWNLOAD", "Download", "download"}
        /\ str[i + 1] \in {"LINK", "Link", "link"}
HasPasswordMarker(str) ==
    \E i \in 1..(Len(str) - 2) :
        /\ str[i] \in {"PASSWORD", "Password", "password"}
        /\ str[i + 1] = ":" /\ str[i + 2] = "2025"

FileName(path) == <<path[Len(path)]>>

\* C22: a repository with a file named loader.zip or loader.rar (in any case)
\* in its tree or among its release assets is flagged, and a match in the tree
\* is returned without a release call.
C22_LoaderFileFlagged ==
    cc.loader # "none" =>
        /\ (\E i \in 1..Len(cc.TreeEntries) : IsLoader(FileName(cc.TreeEntries[i])))
             => cc.loader = "malicious"
        /\ (~cc.relFails /\ ReleasesHaveLoader(cc.assets)) => cc.loader = "malicious"
        /\ TreeHasLoader(cc) => cc.releaseCalls = 0

\* C23: after a 404 GetRepoReadme has returned an empty README and no error,
\* and the README check says not malicious.
C23_MissingReadmeIsEmpty ==
    (cc.status = "404" /\ cc.pc # "start") =>
        /\ cc.pc = "fetched" /\ cc.Readme = <<>> /\ cc.err = "nil"
        /\ cc.readme \in {"none", "clean"}

\* C23 witness: the README check has run on the README of a 404.
C23_Witness ==
    cc.status = "404" /\ cc.pc = "fetched" /\ cc.readme = "clean"


-----------------------------------------------------------------------------
(* The main loop of the earlier mains (search.go:222-248, main.go:50-76) *)

MaxPasses == 3

\* An error is the words of err.Error().
CrawlErrors ==
    {<<"403">>, <<"search", "failed", ":", "403", "Forbidden">>,
     <<"search", "failed", ":", "500">>, <<"context", "deadline", "exceeded">>,
     <<"no", "such", "table">>}

\* The two mains: with the database (search.go) and with the state (main.go).
Variants == {"database", "state"}

\* The test of the main loop for a rate limit error.
IsRateLimitError(variant, err) ==
    IF variant = "database" THEN Contains(err, <<"403">>) ELSE err = <<"403">>

osExit(code) == code
\* log.Fatal prints and calls os.Exit(1).
logFatal == osExit(1)

\* The exit of main after SearchAndProcessRepositories has returned err.
ExitOnError(variant, err) ==
    IF IsRateLimitError(variant, err) THEN osExit(1)
    ELSE IF variant = "database" THEN logFatal ELSE osExit(1)

\* One turn of the loop: a pass fails, finds nothing, or gives a new query.
MainPass ==
    /\ proc.pc = "loop"
    /\ \/ \E e \in CrawlErrors : proc' = [proc EXCEPT !.pc = "failed", !.err = e]
       \/ proc' = [proc EXCEPT !.pc = "done"]
       \/ /\ proc.passes < MaxPasses
          /\ \E newQuery \in 1..MaxT :
                proc' = IF newQuery = proc.currentQuery
                        THEN [proc EXCEPT !.pc = "done", !.passes = @ + 1]
                        ELSE [proc EXCEPT !.passes = @ + 1, !.currentQuery = newQuery]

MainExit ==
    /\ proc.pc = "failed"
    /\ proc' = [proc EXCEPT !.pc = "exited", !.status = ExitOnError(proc.variant, proc.err)]

\* "Search completed.": main returns.
MainReturn ==
    /\ proc.pc = "done"
    /\ proc' = [proc EXCEPT !.pc = "exited", !.status = 0]

MainRest == <<now, rlVars, cacheVars, crawlVars, anVars, dbVars, cl, heVars, cc,
             ev>>

MainNext ==
    \/ MainPass /\ UNCHANGED MainRest
    \/ MainExit /\ UNCHANGED MainRest
    \/ MainReturn /\ UNCHANGED MainRest

MainSpecInit ==
    /\ now = 0 /\ RLInit /\ CacheInit /\ CrawlIdle /\ AnalyzeInit
    /\ DbInit /\ ClientIdle /\ HeurIdle /\ ContentIdle /\ EventsIdle
    /\ \E v \in Variants : proc = [NoProc EXCEPT !.variant = v, !.pc = "loop"]

SpecMain == MainSpecInit /\ [][MainNext]_vars

\* The errors of a rate limit that was used up, and the other errors.
QuotaErrors == {e \in CrawlErrors : Contains(e, <<"403">>)}
GenericErrors == CrawlErrors \ QuotaErrors

\* C24: the exit status after a rate limit error differs from the exit status
\* after any other error of the crawl.
C24_QuotaExitDistinct ==
    (proc.pc = "exited" /\ proc.err \in QuotaErrors) =>
        \A e \in GenericErrors : proc.status # ExitOnError(proc.variant, e)


-----------------------------------------------------------------------------
(* A burst: two goroutines of the pool call the RateLimiter at once *)

\* The calls of a goroutine in the burst, on either budget class.
BurstRequests ==
    {[ep |-> "search", owner |-> None, repo |-> None],
     [ep |-> "user", owner |-> "alice", repo |-> None]}

\* The other limiter state, left alone by a call that has not entered.
rlData == <<coreRemaining, coreReset, searchRemaining, searchReset, lastCheck>>

\* Caller c calls CheckRateLimit and reaches r.mutex.Lock().
CallCheck(c, req) ==
    /\ rlPc[c] = "idle"
    /\ rlPc' = [rlPc EXCEPT ![c] = "calling"]
    /\ rlReq' = [rlReq EXCEPT ![c] = req]
    /\ UNCHANGED <<now, rlData, mutex, rlResp, slept, sleepStart, waitTime>>

\* Lock() returns: the body of CheckRateLimit runs.
EnterCheck(c) ==
    /\ rlPc[c] = "calling"
    /\ CheckRateLimit(c, AdmitClass(rlReq[c]))
    /\ UNCHANGED <<now, rlReq, rlResp>>

\* httpClient.Do returns a response: without rate-limit headers, or with a
\* remaining count below the buffer and a reset time.
BurstHeaders(class) == {NoResp, [rem |-> Buffer(class) - 1, reset |-> ResetAt]}
RespondTo(c) ==
    /\ rlPc[c] = "admitted"
    /\ \E hdr \in BurstHeaders(AdmitClass(rlReq[c])) :
          rlResp' = [rlResp EXCEPT ![c] = hdr]
    /\ rlPc' = [rlPc EXCEPT ![c] = "responded"]
    /\ slept' = [slept EXCEPT ![c] = FALSE]
    /\ UNCHANGED <<now, rlData, mutex, rlReq, sleepStart, waitTime>>

BurstRest == <<cacheVars, crawlVars, anVars, restVars>>

BurstCall(c) == \E req \in BurstRequests : CallCheck(c, req) /\ UNCHANGED BurstRest
BurstEnter(c) == EnterCheck(c) /\ UNCHANGED BurstRest
BurstWakeUp(c) == WakeUp(c) /\ UNCHANGED BurstRest
BurstRecord(c) == Record(c) /\ UNCHANGED BurstRest

BurstNext ==
    \/ \E c \in Callers : BurstCall(c)
    \/ \E c \in Callers : BurstEnter(c)
    \/ \E c \in Callers : BurstWakeUp(c)
    \/ \E c \in Callers : NoResponse(c) /\ UNCHANGED BurstRest
    \/ \E c \in Callers : RespondTo(c) /\ UNCHANGED BurstRest
    \/ \E c \in Callers : BurstRecord(c)
    \/ Tick

\* The clock advances, a sleep that is over ends, and a goroutine waiting in
\* Lock() gets the mutex (sync.Mutex hands it to a starving waiter).
SpecBurst ==
    /\ RLSpecInit
    /\ [][BurstNext]_vars
    /\ WF_vars(Tick)
    /\ \A c \in Callers : WF_vars(BurstWakeUp(c)) /\ SF_vars(BurstEnter(c))

\* A step in which caller c gets through Lock() into CheckRateLimit.
Enters(c) == rlPc[c] = "calling" /\ rlPc'[c] \in {"sleeping", "admitted"}

\* Caller d is back from a wait on the class of c's call and has not yet
\* received its response.
BackFromWait(d, c) ==
    /\ rlPc[d] = "admitted" /\ slept[d]
    /\ AdmitClass(rlReq[d]) = AdmitClass(rlReq[c])

\* C25: of the callers of CheckRateLimit at most one sleeps at a time; the
\* waiter leaves buffer+1, a caller that enters on the same class once the
\* waiter is back returns without sleeping, and every call returns.
C25_BurstSleepsOnce ==
    /\ [](Cardinality({c \in Callers : rlPc[c] = "sleeping"}) <= 1)
    /\ [][\A c \in Callers : \A d \in Callers \ {c} :
             /\ (rlPc[c] = "sleeping" /\ rlPc'[c] # "sleeping") =>
                   RemainingNext(AdmitClass(rlReq[c])) = Buffer(AdmitClass(rlReq[c])) + 1
             /\ (Enters(c) /\ BackFromWait(d, c)) =>
                   rlPc'[c] = "admitted" /\ ~slept'[c]]_vars
    /\ \A c \in Callers : (rlPc[c] \in {"calling", "sleeping"}) ~> (rlPc[c] = "admitted")

\* C25 witness: one caller is back from its wait, the other one called on
\* the same class meanwhile and is through without a wait of its own.
C25_Witness ==
    \E c \in Callers : \E d \in Callers \ {c} :
       /\ BackFromWait(d, c)
       /\ rlPc[c] = "admitted" /\ ~slept[c]
       /\ Remaining(AdmitClass(rlReq[c])) = Buffer(AdmitClass(rlReq[c])) + 1

\* C26: while a caller sleeps in CheckRateLimit, a call on the other class
\* (its remaining above the buffer) and the recording of a response can go
\* ahead at once.
C26_BookkeepingNotSerialized ==
    \A d \in Callers : \A c \in Callers \ {d} :
       rlPc[d] = "sleeping" =>
          /\ (/\ rlPc[c] = "calling"
              /\ AdmitClass(rlReq[c]) = Other(AdmitClass(rlReq[d]))
              /\ Remaining(AdmitClass(rlReq[c])) > Buffer(AdmitClass(rlReq[c])))
               => ENABLED BurstEnter(c)
          /\ rlPc[c] = "responded" => ENABLED BurstRecord(c)


-----------------------------------------------------------------------------
(* The crawl after an error or the deadline, and what a worker records *)

\* A step in which the goroutine of item r gets its slot and calls
\* processRepository.
Starts(r) == wk[r].pc = "queued" /\ wk'[r].pc \notin {"queued", "idle"}

\* C28: once a worker has sent an error on errCh, or the deadline has passed,
\* no goroutine of the page starts processRepository, and the page loop goes
\* to no further page.
C28_NoStartAfterAbort ==
    /\ [][\A r \in RepoIds : Starts(r) => (errCh = <<>> /\ ~ctxDone)]_vars
    /\ [][page' = page + 1 => errCh = <<>>]_vars


\* A step in which the worker of item r writes the row of its repository.
Writes(r) == wk[r].pc = "insert" /\ wk'[r].wrote

\* C29: a worker whose account analysis or content check failed with a
\* transport error writes no row for its repository.
C29_AbandonedNotRecorded ==
    [][\A r \in RepoIds : Writes(r) => wk[r].remoteErr # "error"]_vars

\* C30: a worker that has reached InsertProcessedRepo has made the content
\* check exactly when the size of its item is above 0, whatever came of the
\* account analysis, and an item of size 0 is recorded as not malicious.
C30_ContentRegardlessOfAccount ==
    \A r \in RepoIds :
       /\ wk[r].pc = "content" => world[r].size > 0
       /\ wk[r].pc = "insert" =>
             /\ wk[r].checked <=> world[r].size > 0
             /\ world[r].size = 0 => ~wk[r].isMalicious

\* C30 witness: the analysis of the account failed, the content check was
\* made all the same and found the repository malicious.
C30_Witness ==
    \E r \in RepoIds :
       /\ world[r].size > 0 /\ world[r].size < emptyThreshold
       /\ wk[r].remoteErr = "error" /\ userCache[Owner(r)] = NoVerdict
       /\ wk[r].pc = "insert" /\ wk[r].checked /\ wk[r].isMalicious


-----------------------------------------------------------------------------
(* The account block of processRepository (search.go:577-607), one worker   *)
(* per low-content repository, after runSearchMode has loaded the processed *)
(* users (search.go:382-405)                                                *)

\* repoAnalyzer.PreloadUsers(processedUsers): the names become the set that
\* IsUserFlagged consults.
PreloadUsers(users) == users

\* analyzer.IsUserFlagged(repo.Owner) (search.go:584).
IsUserFlagged(u) == u \in flaggedUsers

\* database.GetProcessedUsers, analyzer.New and PreloadUsers
\* (search.go:384-405): processed_users holds the loaded names, the set of
\* the analyzer holds them too, and its cache of results is empty.
OwnerInit ==
    /\ processedUsers \in SUBSET Owners
    /\ userRows = processedUsers
    /\ flaggedUsers = PreloadUsers(processedUsers)
    /\ flagRows = [u \in Owners |-> 0]
    /\ userCache = [u \in Owners |-> NoVerdict]
    /\ an = [g \in Goroutines |-> IdleCall]
    /\ crashed = FALSE

\* The page loop is not running.
OwnerCrawlIdle ==
    /\ cfg = CrawlConfig
    /\ world = [r \in RepoIds |-> [created |-> 1, updated |-> 1, size |-> 5]]
    /\ ledger = EmptyLedger
    /\ readmeCache = {} /\ searchCache = {}
    /\ ctxDone = FALSE /\ runPc = "paging" /\ currentQuery = InitialQuery
    /\ page = 1 /\ items = {} /\ oldest = ZeroTime /\ errCh = <<>>
    /\ passErr = "nil" /\ wk = [r \in RepoIds |-> IdleWorker]
    /\ faults = 0 /\ quotaHit = FALSE /\ completed = {}

\* if repo.DiskUsage < 10 { analysis, err := analyzer.AnalyzeUser(ctx, repo.Owner)
\* (search.go:578-579): the call is made for every small repository.
OwnerBegin(g, u) ==
    /\ an[g].pc = "idle"
    /\ an' = [an EXCEPT ![g] = [IdleCall EXCEPT !.pc = "load", !.user = u]]
    /\ UNCHANGED <<processedUsers, crashed, userCache, flagRows, userRows,
                   flaggedUsers>>

\* AnalyzeUser has returned: its error ends the block (search.go:580-581),
\* otherwise IsUserFlagged decides (search.go:584, 603-605).
CheckFlagged(g) ==
    /\ an[g].pc = "record"
    /\ an' = [an EXCEPT ![g].pc =
                IF an[g].result = "error" \/ IsUserFlagged(an[g].user)
                THEN "done" ELSE "flags",
              ![g].result =
                IF an[g].result # "error" /\ IsUserFlagged(an[g].user)
                THEN "skipped" ELSE @]
    /\ UNCHANGED <<processedUsers, crashed, userCache, flagRows, userRows,
                   flaggedUsers>>

\* The loop over analysis.HeuristicResults (search.go:586-595).
InsertFlags(g) ==
    /\ an[g].pc = "flags"
    /\ flagRows' = IF an[g].result = "suspicious"
                   THEN InsertHeuristicFlag(flagRows, an[g].user) ELSE flagRows
    /\ an' = [an EXCEPT ![g].pc = "user"]
    /\ UNCHANGED <<processedUsers, crashed, userCache, userRows, flaggedUsers>>

\* database.InsertProcessedUser (search.go:597-600).
InsertUser(g) ==
    /\ an[g].pc = "user"
    /\ userRows' = InsertProcessedUser(userRows, an[g].user)
    /\ an' = [an EXCEPT ![g].pc = "mark"]
    /\ UNCHANGED <<processedUsers, crashed, userCache, flagRows, flaggedUsers>>

\* analyzer.MarkUserFlagged(repo.Owner) (search.go:602).
MarkUserFlagged(g) ==
    /\ an[g].pc = "mark"
    /\ flaggedUsers' = flaggedUsers \cup {an[g].user}
    /\ an' = [an EXCEPT ![g].pc = "done"]
    /\ UNCHANGED <<processedUsers, crashed, userCache, flagRows, userRows>>

OwnerRest == <<now, rlVars, cacheVars, world, cfg, ledger, readmeCache,
               searchCache, ctxDone, runPc, currentQuery, page, items, oldest,
               errCh, passErr, wk, faults, quotaHit, completed, restVars>>

OwnerNext ==
    \/ \E g \in Goroutines : \E u \in Owners :
          OwnerBegin(g, u) /\ UNCHANGED OwnerRest
    \/ \E g \in Goroutines :
          LoadCache(g) /\ UNCHANGED <<flaggedUsers, OwnerRest>>
    \/ \E g \in Goroutines :
          Fetch(g) /\ UNCHANGED <<flaggedUsers, OwnerRest>>
    \/ \E g \in Goroutines :
          Store(g) /\ UNCHANGED <<flaggedUsers, OwnerRest>>
    \/ \E g \in Goroutines : CheckFlagged(g) /\ UNCHANGED OwnerRest
    \/ \E g \in Goroutines : InsertFlags(g) /\ UNCHANGED OwnerRest
    \/ \E g \in Goroutines : InsertUser(g) /\ UNCHANGED OwnerRest
    \/ \E g \in Goroutines : MarkUserFlagged(g) /\ UNCHANGED OwnerRest

OwnerSpecInit ==
    /\ now = 0 /\ RLInit /\ CacheInit /\ RestIdle
    /\ OwnerCrawlIdle
    /\ OwnerInit

SpecOwner == OwnerSpecInit /\ [][OwnerNext]_vars

\* The workers that executed the account insert for owner u.
Recorders(u) ==
    {g \in Goroutines : /\ an[g].user = u
                        /\ an[g].pc \in {"mark", "done"}
                        /\ an[g].result \in {"clean", "suspicious"}}

\* C31: within one run the heuristic flags of an owner are inserted at most
\* once and the account insert of an owner is executed by at most one worker,
\* however the workers that process the owner's small repositories interleave.
C31_OwnerRecordedOnce ==
    \A u \in Owners : flagRows[u] <= 1 /\ Cardinality(Recorders(u)) <= 1

-----------------------------------------------------------------------------
(* The remaining counts between updates from the server *)

\* The class whose fields UpdateFromResponse writes for the request req.
UpdatedClass(req) == IF IsSearchRequest(UrlPath(req)) THEN "search" ELSE "core"

\* A step that brings class k a value from the server: a recorded response
\* to a request of that class with the header, or an applied refresh.
ServerUpdate(k) ==
    \E c \in Callers :
       \/ Refreshes(c)
       \/ Records(c) /\ UpdatedClass(rlReq[c]) = k /\ rlResp[c].rem # Absent

\* A step in which a wait of CheckRateLimit on class k ends.
WaitEnds(k) ==
    \E c \in Callers :
       rlPc[c] = "sleeping" /\ rlPc'[c] = "admitted" /\ AdmitClass(rlReq[c]) = k

\* C33 as stated: between two updates of a class from the server, the
\* remaining count of that class never increases.
C33_RemainingNeverIncreases ==
    [][\A k \in Classes :
         ~ServerUpdate(k) => RemainingNext(k) <= Remaining(k)]_vars

\* C33 amended: between two updates of a class from the server the remaining
\* count of that class changes only when a wait of CheckRateLimit on that
\* class ends, and then it goes up, from below the buffer to buffer+1.
C33_RemainingChangesOnlyAfterWait ==
    [][\A k \in Classes :
         (~ServerUpdate(k) /\ RemainingNext(k) # Remaining(k))
            => /\ WaitEnds(k)
               /\ Remaining(k) < Buffer(k)
               /\ RemainingNext(k) = Buffer(k) + 1]_vars

\* C33 witness: a wait has ended and no response has been recorded since: the
\* class stands at buffer+1, a value no response or refresh of the model
\* carries.
C33_Witness ==
    \E c \in Callers :
       /\ rlPc[c] = "admitted" /\ slept[c] /\ mutex = "free"
       /\ Remaining(AdmitClass(rlReq[c])) = AfterWaitRemaining(AdmitClass(rlReq[c]))
       /\ Remaining(AdmitClass(rlReq[c])) \notin HdrRemaining(AdmitClass(rlReq[c]))

\* A step in which caller c sends the status query of FetchRateLimits.
IssuesQuery(c) == rlPc[c] = "idle" /\ rlPc'[c] = "fetching"

\* C34: FetchRateLimits sends at most one status query per check interval,
\* whoever calls it: no query is sent while another caller's query of the
\* same interval is outstanding, and none within checkInterval of the last
\* update, in which case the call changes neither budget.
C34_OneQueryPerInterval ==
    [][\A c \in Callers :
         /\ IssuesQuery(c) =>
               /\ \A d \in Callers \ {c} : rlPc[d] # "fetching"
               /\ ~(Since(lastCheck) < checkInterval)
         /\ (rlPc[c] = "idle" /\ Since(lastCheck) < checkInterval /\ rlPc'[c] = "idle")
               => UNCHANGED <<coreRemaining, coreReset, searchRemaining, searchReset>>]_vars


-----------------------------------------------------------------------------
(* The count of a user's events of the last year: Client.GetUserContributions *)
(* (part_003:382-450) and the earlier getContributionsLastYear               *)
(* (src/main.go:25-54)                                                       *)

MaxEvents == 3

\* 365 * 24 hours, and time.Now().Add(-365 * 24 * time.Hour).
Year == 365 * 24
oneYearAgo == now - Year

\* An event of the listing: whether its created_at parses (is present, in
\* the earlier version) and the time it gives.
EventTimes == {oneYearAgo - 1, oneYearAgo, oneYearAgo + 1, oneYearAgo + 2}
Events == [ok : {TRUE}, t : EventTimes] \cup {[ok |-> FALSE, t |-> ZeroTime]}
EventLists == UNION {[1..n -> Events] : n \in 0..MaxEvents}

\* err == nil && t.After(oneYearAgo) (part_003:445), and
\* event.CreatedAt != nil && event.CreatedAt.Time.After(oneYearAgo) (main.go:41).
IsRecentOrAtCutoff(e, cutoff) == e.ok /\ e.t >= cutoff
IsRecent(e, cutoff) == e.ok /\ After(e.t, cutoff)

\* The loop of part_003:443-448: every event is looked at.
RECURSIVE CountRecent(_, _)
CountRecent(events, cutoff) ==
    IF events = <<>> THEN 0
    ELSE (IF IsRecent(Head(events), cutoff) THEN 1 ELSE 0)
           + CountRecent(Tail(events), cutoff)

\* The loop of main.go:40-47: it returns at the first event that is not recent.
RECURSIVE CountLeading(_, _)
CountLeading(events, cutoff) ==
    IF events = <<>> THEN 0
    ELSE IF IsRecent(Head(events), cutoff)
         THEN 1 + CountLeading(Tail(events), cutoff)
         ELSE 0

\* Client.GetUserContributions on the listing it fetched (or found cached).
GetUserContributions ==
    /\ ev.pc = "ready"
    /\ ev' = [ev EXCEPT !.pc = "done", !.by = "GetUserContributions",
                        !.count = CountRecent(ev.events, oneYearAgo)]

\* getContributionsLastYear on the listing its pages give.
getContributionsLastYear ==
    /\ ev.pc = "ready"
    /\ ev' = [ev EXCEPT !.pc = "done", !.by = "getContributionsLastYear",
                        !.count = CountLeading(ev.events, oneYearAgo)]

EventsRest == <<now, rlVars, cacheVars, crawlVars, anVars, dbVars, cl, heVars, cc,
                proc>>

EventsNext ==
    \/ GetUserContributions /\ UNCHANGED EventsRest
    \/ getContributionsLastYear /\ UNCHANGED EventsRest

EventsSpecInit ==
    /\ now = 0 /\ RLInit /\ CacheInit /\ CrawlIdle /\ AnalyzeInit
    /\ DbInit /\ ClientIdle /\ HeurIdle /\ ContentIdle /\ ProcIdle
    /\ \E l \in EventLists : ev = [NoEvents EXCEPT !.pc = "ready", !.events = l]

SpecEvents == EventsSpecInit /\ [][EventsNext]_vars

\* A listing in reverse chronological order: every event has a time and no
\* event is newer than the one before it.
ReverseChronological(l) ==
    /\ \A i \in 1..Len(l) : l[i].ok
    /\ \A i \in 1..(Len(l) - 1) : l[i].t >= l[i + 1].t

\* The length of the longest leading run of events newer than the cutoff.
LeadingNewer(l, cutoff) ==
    CHOOSE n \in 0..Len(l) :
       /\ \A i \in 1..n : l[i].t > cutoff
       /\ n < Len(l) => ~(l[n + 1].t > cutoff)

\* C35: for a listing in reverse chronological order the count returned is
\* the number of events of the longest leading run that is newer than the
\* one-year cutoff; no event after the first one that is not newer counts.
C35_CountIsLeadingNewer ==
    (ev.pc = "done" /\ ReverseChronological(ev.events))
       => ev.count = LeadingNewer(ev.events, oneYearAgo)

\* C35 witness: a count over a listing in reverse chronological order that
\* has events on both sides of the cutoff, one of them exactly at it.
C35_Witness ==
    /\ ev.pc = "done" /\ ev.by = "GetUserContributions"
    /\ ReverseChronological(ev.events)
    /\ ev.count > 0 /\ ev.count < Len(ev.events)
    /\ ev.events[ev.count + 1].t = oneYearAgo


-----------------------------------------------------------------------------
(* Stored rows and the dashboard *)

\* C36: a row of processed_repositories, once stored, keeps its verdict and
\* its other columns whatever statement is executed afterwards, the ones of
\* the dashboard's handlers included; an insert for a stored repo_id changes
\* nothing.
C36_StoredVerdictImmutable ==
    [][\A i \in 1..Len(repoTable) :
         i <= Len(repoTable') /\ repoTable'[i] = repoTable[i]]_vars


-----------------------------------------------------------------------------
(* What the accessors write to the cache *)

\* A step in which an accessor got a 200 and read its body to the end.
ReadsSuccess ==
    /\ cl.pc = "admitted" /\ cl'.outbound = cl.outbound + 1
    /\ cl'.last = "200" /\ cl'.err # ReadError(cl.op)

\* C37: an accessor writes the cache exactly in the steps in which it got a
\* 200 and read the body completely, and then it stores that body under the
\* key of the call; after any other status, a failed transport or a body
\* that could not be read the cache is what it was, so no entry ever holds
\* the bytes of an error response.
C37_OnlySuccessCached ==
    /\ [][/\ (apiCache' # apiCache) <=> ReadsSuccess
          /\ ReadsSuccess =>
                \E body \in Bodies(cl.op) :
                   apiCache' = APICacheSet(apiCache, cacheKey(cl.op, cl.page), body)]_vars
    /\ [](\A k \in ClientKeys : apiCache[k].present => apiCache[k].Data # ErrorBody)

\* C37 witness: an accessor has returned on a 403, 404 or 500 for a key that
\* has no entry, while the cache holds the body of an earlier 200.
C37_Witness ==
    /\ cl.pc = "returned" /\ cl.last \in {"403", "404", "500"}
    /\ ~apiCache[cacheKey(cl.op, cl.page)].present
    /\ \E k \in ClientKeys : apiCache[k].present


-----------------------------------------------------------------------------
(* The goroutines of a page and the page loop *)

\* One invocation of searchAndProcessRepositories, for every page size up
\* to PageSize and every pool size from 1 to PoolSize, on a directory whose
\* repositories differ in size only.
DrainWorlds == {w \in PoolWorlds : \A r \in RepoIds : w[r].updated = 1}
DrainConfigs ==
    [PerPage : 1..PageSize, MaxPages : {PageCap}, MaxConcurrent : 1..PoolSize]

DrainSpecInit ==
    /\ now = 0 /\ RLFetched /\ CacheInit
    /\ \E w \in DrainWorlds : \E c \in DrainConfigs : CrawlInitCfg(w, EmptyLedger, c)
    /\ AnalyzeInit /\ RestIdle

DrainRest == <<now, rlVars, cacheVars, anVars, restVars>>

DrainNext ==
    \/ SearchPage /\ UNCHANGED DrainRest
    \/ \E r \in RepoIds : Lookup(r) /\ UNCHANGED DrainRest
    \/ \E r \in RepoIds : Analyze(r) /\ UNCHANGED DrainRest
    \/ \E r \in RepoIds : Content(r) /\ UNCHANGED DrainRest
    \/ \E r \in RepoIds : Insert(r) /\ UNCHANGED DrainRest
    \/ Join /\ UNCHANGED DrainRest
    \/ DeadlineExpires /\ UNCHANGED DrainRest

\* The goroutines and the page loop keep taking their steps.
SpecDrain == DrainSpecInit /\ [][DrainNext]_vars /\ WF_vars(DrainNext)

\* A goroutine of the page that has not returned yet.
Live(r) == r \in items /\ wk[r].pc # "done"

\* A step of the page loop past wg.Wait(): to the next page's search or to
\* the return.
LeavesPage == runPc = "draining" /\ runPc' # "draining"

-----------------------------------------------------------------------------
(* The account without repositories *)

\* C39: for an account without repositories, of whatever age and with
\* whatever count of contributions, the early return of AnalyzeUser is what
\* the three rules give on the empty list: the metrics of the empty list are
\* zero, no rule has its flag set, and the verdict is clean.
C39_EarlyReturnIsRulesOnEmpty ==
    (hOut.by = "AnalyzeUser" /\ hIn.Repositories = <<>>) =>
        /\ hOut = EmptyAnalysis
        /\ hOut = ComputeFlags(hIn)
        /\ computeRepoMetrics(hIn.Repositories)
             = [totalStars |-> 0, emptyCount |-> 0, suspiciousEmptyCount |-> 0]
        /\ hOut.suspicious = EvaluateUserHeuristics(hIn, <<>>).suspicious
        /\ \A i \in 1..3 : /\ ~hOut.results[i].Flag
                           /\ ~EvaluateUserHeuristics(hIn, <<>>).results[i].Flag

\* C39 witness: AnalyzeUser has returned for an account of one day without
\* repositories and without contributions, the one nearest to a rule.
C39_Witness ==
    /\ hOut.by = "AnalyzeUser" /\ hIn.Repositories = <<>>
    /\ AgeHours = 24 /\ hIn.Contributions = 0
    /\ ~hOut.suspicious

=============================================================================
